---------------------------- MODULE Spec2Model ----------------------------
(* A model of the trigram search index of vs-search-everything:           *)
(*   - the text utilities of src/utils/trigramUtils.ts (pure operators),  *)
(*   - the two storage adapters (InMemoryTrigramStorage and               *)
(*     SqliteTrigramStorage) as operators over a store record,            *)
(*   - TrigramIndexService as a state machine whose steps are the turns   *)
(*     of the JavaScript event loop: a step runs from one resumption of   *)
(*     an async function up to its next await of real asynchronous work   *)
(*     (a vscode API call, initSqlJs, a timer). Awaits of the storage     *)
(*     adapters resolve on the microtask queue, because the adapters do   *)
(*     only synchronous work, so they do not end a step.                  *)
(* Strings are sequences of one-character strings.                        *)
EXTENDS Integers, Sequences, FiniteSets, TLC

(***************************************************************************)
(* Characters                                                              *)
(***************************************************************************)
LowerChars == <<"a","b","c","d","e","f","g","h","i","j","k","l","m",
                "n","o","p","q","r","s","t","u","v","w","x","y","z">>
UpperChars == <<"A","B","C","D","E","F","G","H","I","J","K","L","M",
                "N","O","P","Q","R","S","T","U","V","W","X","Y","Z">>
DigitChars == <<"0","1","2","3","4","5","6","7","8","9">>

Range(s) == {s[i] : i \in DOMAIN s}

IsLower(c) == c \in Range(LowerChars)
IsUpper(c) == c \in Range(UpperChars)
IsDigit(c) == c \in Range(DigitChars)
IsAlnum(c) == IsLower(c) \/ IsUpper(c) \/ IsDigit(c)
\* \s of the regular expressions; the model's texts hold no other white space
IsSpace(c) == c = " "
\* the separator class [_\-\s]
IsSep(c) == c = "_" \/ c = "-" \/ IsSpace(c)
\* the class [\w\s\-_] that preprocessForIndexing keeps
IsKept(c) == IsAlnum(c) \/ IsSep(c)

IndexOf(s, c) == CHOOSE i \in DOMAIN s : s[i] = c

ToLowerChar(c) == IF IsUpper(c) THEN LowerChars[IndexOf(UpperChars, c)] ELSE c
toLowerCase(s) == [i \in DOMAIN s |-> ToLowerChar(s[i])]

\* String.prototype.charCodeAt for the characters of the model
charCode(c) ==
    IF IsLower(c) THEN 96 + IndexOf(LowerChars, c)
    ELSE IF IsUpper(c) THEN 64 + IndexOf(UpperChars, c)
    ELSE IF IsDigit(c) THEN 47 + IndexOf(DigitChars, c)
    ELSE IF c = " " THEN 32
    ELSE IF c = "-" THEN 45
    ELSE IF c = "." THEN 46
    ELSE IF c = "/" THEN 47
    ELSE IF c = "_" THEN 95
    ELSE 0

\* s.substring(from0, to0) with 0-based bounds, from0 <= to0
substring(s, from0, to0) ==
    LET hi == IF to0 > Len(s) THEN Len(s) ELSE to0
    IN  IF from0 >= hi THEN <<>> ELSE SubSeq(s, from0 + 1, hi)

startsWith(s, p) == Len(p) <= Len(s) /\ SubSeq(s, 1, Len(p)) = p
includes(s, p) == \E i \in 0..(Len(s) - Len(p)) : SubSeq(s, i + 1, i + Len(p)) = p

RECURSIVE Concat(_)
Concat(ss) == IF ss = <<>> THEN <<>> ELSE Head(ss) \o Concat(Tail(ss))

Abs(n) == IF n < 0 THEN -n ELSE n
Max(a, b) == IF a >= b THEN a ELSE b
Min(a, b) == IF a <= b THEN a ELSE b

\* path.basename for '/'-separated paths
basename(p) ==
    LET slashes == {i \in DOMAIN p : p[i] = "/"}
    IN  IF slashes = {} THEN p
        ELSE SubSeq(p, (CHOOSE i \in slashes : \A j \in slashes : j <= i) + 1, Len(p))

(***************************************************************************)
(* src/utils/trigramUtils.ts                                               *)
(***************************************************************************)
MIN_LENGTH == 3

\* text.replace(/[^\w\s\-_]/g, ' ')
ReplaceSpecial(text) == [i \in DOMAIN text |-> IF IsKept(text[i]) THEN text[i] ELSE " "]

\* .replace(/\s+/g, ' '): every run of white space becomes one space
RECURSIVE CollapseSpaces(_)
CollapseSpaces(text) ==
    IF text = <<>> THEN <<>>
    ELSE IF IsSpace(Head(text)) /\ Len(text) > 1 /\ IsSpace(text[2])
         THEN CollapseSpaces(Tail(text))
    ELSE IF IsSpace(Head(text)) THEN <<" ">> \o CollapseSpaces(Tail(text))
    ELSE <<Head(text)>> \o CollapseSpaces(Tail(text))

\* String.prototype.trim
RECURSIVE TrimLeft(_)
TrimLeft(text) ==
    IF text # <<>> /\ IsSpace(Head(text)) THEN TrimLeft(Tail(text)) ELSE text
RECURSIVE TrimRight(_)
TrimRight(text) ==
    IF text # <<>> /\ IsSpace(text[Len(text)])
    THEN TrimRight(SubSeq(text, 1, Len(text) - 1)) ELSE text
trim(text) == TrimRight(TrimLeft(text))

preprocessForIndexing(text) == trim(CollapseSpaces(ReplaceSpecial(text)))

\* /[a-zA-Z0-9]/.test(trigram)
HasAlnum(t) == \E i \in DOMAIN t : IsAlnum(t[i])

\* the windows of generateTrigramsWithPositions, in order of position
RECURSIVE TrigramsFrom(_, _)
TrigramsFrom(processedText, i) ==
    IF i > Len(processedText) - MIN_LENGTH THEN <<>>
    ELSE LET trigram == substring(processedText, i, i + MIN_LENGTH)
         IN  (IF HasAlnum(trigram) THEN <<[trigram |-> trigram, position |-> i]>> ELSE <<>>)
             \o TrigramsFrom(processedText, i + 1)

generateTrigramsWithPositions(text, caseSensitive) ==
    IF text = <<>> \/ Len(text) < MIN_LENGTH THEN <<>>
    ELSE TrigramsFrom(IF caseSensitive THEN text ELSE toLowerCase(text), 0)

\* Array.from(new Set(...)): the first occurrence of each element, in order
RECURSIVE Dedup(_)
Dedup(s) ==
    IF s = <<>> THEN <<>>
    ELSE LET init == Dedup(SubSeq(s, 1, Len(s) - 1))
             last == s[Len(s)]
         IN  IF last \in Range(init) THEN init ELSE Append(init, last)

generateTrigrams(text, caseSensitive) ==
    IF text = <<>> \/ Len(text) < MIN_LENGTH THEN <<>>
    ELSE LET processedText == IF caseSensitive THEN text ELSE toLowerCase(text)
             windows == [i \in 1..(Len(processedText) - MIN_LENGTH + 1) |->
                            substring(processedText, i - 1, i - 1 + MIN_LENGTH)]
         IN  Dedup(SelectSeq(windows, HasAlnum))

\* The two replace() passes of the CamelCase split put a break before part[j]
\* when /([a-z])([A-Z])/ matches at j-1 (pass 1), or when part[j-1], part[j]
\* are upper case and part[j+1] is lower case (pass 2: ([A-Z]+)([A-Z][a-z])
\* backtracks to the last upper-case letter of a run that a lower-case letter
\* follows). Matches of either pass cannot overlap, so /g finds them all.
CamelBreakBefore(part, j) ==
    /\ j > 1
    /\ \/ IsLower(part[j - 1]) /\ IsUpper(part[j])
       \/ /\ IsUpper(part[j - 1]) /\ IsUpper(part[j])
          /\ j + 1 <= Len(part) /\ IsLower(part[j + 1])

\* part.replace(...).replace(...).split('\0') with the empty strings dropped,
\* each token with its 0-based start inside part
RECURSIVE CamelSplitFrom(_, _, _)
CamelSplitFrom(part, start, j) ==
    IF start > Len(part) THEN <<>>
    ELSE IF j > Len(part) \/ CamelBreakBefore(part, j)
         THEN <<[token |-> SubSeq(part, start, j - 1), position |-> start - 1]>>
              \o CamelSplitFrom(part, j, j + 1)
    ELSE CamelSplitFrom(part, start, j + 1)
CamelSplit(part) == CamelSplitFrom(part, 1, 2)

\* text.split(/([_\-\s]+)/): the maximal runs of separators and of other
\* characters, each with its 0-based start; the walk over parts adds
\* part.length to currentPos for every part
RECURSIVE PartsFrom(_, _, _)
PartsFrom(text, start, j) ==
    IF start > Len(text) THEN <<>>
    ELSE IF j > Len(text) \/ IsSep(text[j]) # IsSep(text[start])
         THEN <<[part |-> SubSeq(text, start, j - 1), currentPos |-> start - 1]>>
              \o PartsFrom(text, j, j + 1)
    ELSE PartsFrom(text, start, j + 1)
Parts(text) == PartsFrom(text, 1, 2)

RECURSIVE TokensOfParts(_)
TokensOfParts(parts) ==
    IF parts = <<>> THEN <<>>
    ELSE LET p == Head(parts)
             camelTokens == CamelSplit(p.part)
         IN  (IF IsSep(p.part[1]) THEN <<>>
              ELSE [k \in DOMAIN camelTokens |->
                       [token |-> camelTokens[k].token,
                        position |-> p.currentPos + camelTokens[k].position]])
             \o TokensOfParts(Tail(parts))

\* a token walk that reports the index of the token as its position
extractTokensWithIndexes(text) ==
    LET tokens == TokensOfParts(Parts(text))
    IN  [k \in DOMAIN tokens |-> [token |-> tokens[k].token, position |-> k - 1]]
extractCamelCaseTokensWithPositions(text) == TokensOfParts(Parts(text))

\* text.split(/[_\-\s]+/), empty parts skipped, each part CamelCase-split
RECURSIVE CamelTokensOfParts(_)
CamelTokensOfParts(parts) ==
    IF parts = <<>> THEN <<>>
    ELSE LET p == Head(parts).part
             camelTokens == CamelSplit(p)
         IN  (IF IsSep(p[1]) THEN <<>>
              ELSE [k \in DOMAIN camelTokens |-> camelTokens[k].token])
             \o CamelTokensOfParts(Tail(parts))

extractCamelCaseTokens(text) == CamelTokensOfParts(Parts(text))

\* the loose walk of matchesAbbreviation: a query character consumes the
\* current token when it is the token's first letter or occurs in it
RECURSIVE AbbrevWalk(_, _, _, _)
AbbrevWalk(queryLower, tokensLower, queryIndex, tokenIndex) ==
    IF queryIndex < Len(queryLower) /\ tokenIndex < Len(tokensLower)
    THEN LET token == tokensLower[tokenIndex + 1]
             queryChar == queryLower[queryIndex + 1]
         IN  IF token[1] = queryChar
             THEN AbbrevWalk(queryLower, tokensLower, queryIndex + 1, tokenIndex + 1)
             ELSE IF queryChar \in Range(token)
             THEN AbbrevWalk(queryLower, tokensLower, queryIndex + 1, tokenIndex + 1)
             ELSE AbbrevWalk(queryLower, tokensLower, queryIndex, tokenIndex + 1)
    ELSE queryIndex

\* the two prefix tests of matchesAbbreviation without its walk
matchesPrefixOnly(query, text) ==
    LET tokens == extractCamelCaseTokens(text)
        tokensLower == [k \in DOMAIN tokens |-> toLowerCase(tokens[k])]
    IN  \/ startsWith(Concat(tokensLower), toLowerCase(query))
        \/ startsWith([k \in DOMAIN tokensLower |-> tokensLower[k][1]], toLowerCase(query))
matchesAbbreviation(query, text) ==
    LET tokens == extractCamelCaseTokens(text)
        queryLower == toLowerCase(query)
        tokensLower == [k \in DOMAIN tokens |-> toLowerCase(tokens[k])]
        concatenated == toLowerCase(Concat(tokensLower))
        firstLetters == [k \in DOMAIN tokensLower |-> tokensLower[k][1]]
    IN  IF Len(tokens) = 0 THEN FALSE
        ELSE IF startsWith(concatenated, queryLower) THEN TRUE
        ELSE IF startsWith(firstLetters, queryLower) THEN TRUE
        ELSE AbbrevWalk(queryLower, tokensLower, 0, 0) = Len(query)

\* the fuzzy character walk of calculateMatchScore:
\* [score, queryIdx, lastMatchIdx] after the characters i.. of processedText
RECURSIVE FuzzyWalk(_, _, _, _, _, _)
FuzzyWalk(processedQuery, processedText, i, score, queryIdx, lastMatchIdx) ==
    IF i < Len(processedText) /\ queryIdx < Len(processedQuery)
    THEN IF processedText[i + 1] = processedQuery[queryIdx + 1]
         THEN LET consecutive == IF lastMatchIdx = i - 1 THEN 50 ELSE 0
                  boundary == IF i = 0 \/ ~IsAlnum(processedText[i]) THEN 25 ELSE 0
              IN  FuzzyWalk(processedQuery, processedText, i + 1,
                            score + 100 + consecutive + boundary, queryIdx + 1, i)
         ELSE FuzzyWalk(processedQuery, processedText, i + 1, score, queryIdx, lastMatchIdx)
    ELSE [score |-> score, queryIdx |-> queryIdx]

calculateMatchScore(query, text, caseSensitive) ==
    LET processedQuery == IF caseSensitive THEN query ELSE toLowerCase(query)
        processedText == IF caseSensitive THEN text ELSE toLowerCase(text)
        walk == FuzzyWalk(processedQuery, processedText, 0, 0, 0, -1)
    IN  IF processedText = processedQuery THEN 1000
        ELSE IF startsWith(processedText, processedQuery) THEN 900
        ELSE IF includes(processedText, processedQuery) THEN 800
        ELSE IF matchesAbbreviation(query, text) THEN 700
        ELSE IF walk.queryIdx # Len(processedQuery) THEN 0
        ELSE Max(0, walk.score - Abs(Len(processedText) - Len(processedQuery)) * 5)

(***************************************************************************)
(* Items and maps                                                          *)
(***************************************************************************)
\* a TrigramItem; parentId 0 stands for an absent parentId
Item(id, path, name, type, parentId) ==
    [id |-> id, path |-> path, name |-> name, type |-> type, parentId |-> parentId]
\* the null that getItem and getItemByPath return for a missing item
NullItem == Item(0, <<>>, <<>>, "null", 0)

\* a JavaScript Map as a function: Map.set, Map.delete, Map.has
MapSet(m, k, v) == [x \in (DOMAIN m) \cup {k} |-> IF x = k THEN v ELSE m[x]]
MapDelete(m, k) == [x \in (DOMAIN m) \ {k} |-> m[x]]
MapHas(m, k) == k \in DOMAIN m
EmptyMap == [x \in {} |-> 0]

\* a JavaScript Set of numbers as a sequence in insertion order
SetAdd(s, x) == IF x \in Range(s) THEN s ELSE Append(s, x)
SetDelete(s, x) == SelectSeq(s, LAMBDA y : y # x)

\* the elements of a finite set of numbers in ascending order
RECURSIVE SortedSeq(_)
SortedSeq(S) ==
    IF S = {} THEN <<>>
    ELSE LET m == CHOOSE x \in S : \A y \in S : x <= y
         IN  <<m>> \o SortedSeq(S \ {m})

\* a Map<number, number> of match counts as a sequence of entries in
\* insertion order: scores.set(itemId, (scores.get(itemId) || 0) + 1)
ScoreBump(scores, itemId) ==
    IF \E k \in DOMAIN scores : scores[k].itemId = itemId
    THEN [k \in DOMAIN scores |->
            IF scores[k].itemId = itemId
            THEN [scores[k] EXCEPT !.count = @ + 1] ELSE scores[k]]
    ELSE Append(scores, [itemId |-> itemId, count |-> 1])

RECURSIVE ScoreBumpAll(_, _)
ScoreBumpAll(scores, itemSet) ==
    IF itemSet = <<>> THEN scores
    ELSE ScoreBumpAll(ScoreBump(scores, Head(itemSet)), Tail(itemSet))

\* an exception leaves the store as it is and marks it: every adapter
\* operation is skipped while the mark is set, a catch block clears it
Throw(st) == [st EXCEPT !.thrown = TRUE]
Caught(st) == [st EXCEPT !.thrown = FALSE]

(***************************************************************************)
(* src/storage/inMemoryTrigramStorage.ts                                   *)
(***************************************************************************)
MemoryStorage ==
    [kind |-> "memory", thrown |-> FALSE,
     itemsById |-> EmptyMap, itemsByPath |-> EmptyMap,
     trigramShards |-> EmptyMap, tokenShards |-> EmptyMap,
     totalTrigrams |-> 0, totalTokens |-> 0,
     activeTrigramShards |-> 0, activeTokenShards |-> 0,
     nextId |-> 1]

getTrigramShardIndex(trigram) ==
    LET c1 == IF Len(trigram) >= 1 THEN charCode(trigram[1]) ELSE 0
        c2 == IF Len(trigram) >= 2 THEN charCode(trigram[2]) ELSE 0
    IN  c1 * 256 + c2

getTokenShardIndex(token) == IF Len(token) >= 1 THEN charCode(token[1]) ELSE 0

MemClear(st) ==
    [st EXCEPT !.itemsById = EmptyMap, !.itemsByPath = EmptyMap,
               !.trigramShards = EmptyMap, !.tokenShards = EmptyMap,
               !.totalTrigrams = 0, !.totalTokens = 0,
               !.activeTrigramShards = 0, !.activeTokenShards = 0,
               !.nextId = 1]

MemAddItem(st, item) ==
    LET id == st.nextId
        itemWithId == [item EXCEPT !.id = id]
    IN  [st EXCEPT !.nextId = id + 1,
                   !.itemsById = MapSet(@, id, itemWithId),
                   !.itemsByPath = MapSet(@, item.path, itemWithId)]

\* patch is a partial TrigramItem: a record with some of the item's fields
MemUpdateItem(st, id, patch) ==
    IF ~MapHas(st.itemsById, id) THEN Throw(st)
    ELSE LET existing == st.itemsById[id]
             updated == [f \in DOMAIN existing |->
                            IF f \in DOMAIN patch THEN patch[f] ELSE existing[f]]
             byId == [st EXCEPT !.itemsById = MapSet(@, id, updated)]
         IN  IF "path" \in DOMAIN patch /\ patch.path # <<>> /\ patch.path # existing.path
             THEN [byId EXCEPT !.itemsByPath =
                                  MapSet(MapDelete(@, existing.path), patch.path, updated)]
             ELSE byId

\* one pass of removeTrigrams / removeTokens over the shards
ShardWithout(shard, itemId) ==
    LET kept == {t \in DOMAIN shard : SetDelete(shard[t], itemId) # <<>>}
    IN  [t \in kept |-> SetDelete(shard[t], itemId)]
ShardsWithout(shards, itemId) ==
    LET kept == {i \in DOMAIN shards : DOMAIN ShardWithout(shards[i], itemId) # {}}
    IN  [i \in kept |-> ShardWithout(shards[i], itemId)]
TermCount(shards) ==
    Cardinality(UNION {{i} \X DOMAIN shards[i] : i \in DOMAIN shards})

\* a removeTrigrams that removes nothing
MemKeepTrigrams(st, itemId) == st
MemRemoveTrigrams(st, itemId) ==
    LET shards == ShardsWithout(st.trigramShards, itemId)
    IN  [st EXCEPT !.trigramShards = shards,
                   !.totalTrigrams = @ - (TermCount(st.trigramShards) - TermCount(shards)),
                   !.activeTrigramShards =
                       @ - Cardinality((DOMAIN st.trigramShards) \ DOMAIN shards)]

MemRemoveTokens(st, itemId) ==
    LET shards == ShardsWithout(st.tokenShards, itemId)
    IN  [st EXCEPT !.tokenShards = shards,
                   !.totalTokens = @ - (TermCount(st.tokenShards) - TermCount(shards)),
                   !.activeTokenShards =
                       @ - Cardinality((DOMAIN st.tokenShards) \ DOMAIN shards)]

\* a deleteItem that removes the postings and keeps the item
MemDeletePostingsOnly(st, id) == MemRemoveTokens(MemRemoveTrigrams(st, id), id)
MemDeleteItem(st, id) ==
    IF ~MapHas(st.itemsById, id) THEN st
    ELSE LET item == st.itemsById[id]
             s1 == [st EXCEPT !.itemsById = MapDelete(@, id),
                              !.itemsByPath = MapDelete(@, item.path)]
         IN  MemRemoveTokens(MemRemoveTrigrams(s1, id), id)

MemGetItem(st, id) == IF MapHas(st.itemsById, id) THEN st.itemsById[id] ELSE NullItem
MemGetItemByPath(st, path) ==
    IF MapHas(st.itemsByPath, path) THEN st.itemsByPath[path] ELSE NullItem
\* Array.from(itemsById.values()): ids are inserted in ascending order
MemGetAllItems(st) ==
    LET ids == SortedSeq(DOMAIN st.itemsById)
    IN  [k \in DOMAIN ids |-> st.itemsById[ids[k]]]

\* one iteration of the loop of addTrigrams
\* an addTrigrams step that does not count the shard it allocates
MemAddTrigramUncounted(st, t) ==
    LET shardIndex == getTrigramShardIndex(t.trigram)
        shard == IF MapHas(st.trigramShards, shardIndex)
                 THEN st.trigramShards[shardIndex] ELSE EmptyMap
        newTerm == ~MapHas(shard, t.trigram)
        itemSet == IF newTerm THEN <<>> ELSE shard[t.trigram]
    IN  [st EXCEPT !.trigramShards =
                      MapSet(@, shardIndex, MapSet(shard, t.trigram, SetAdd(itemSet, t.itemId))),
                   !.totalTrigrams = IF newTerm THEN @ + 1 ELSE @]
MemAddTrigram(st, t) ==
    LET shardIndex == getTrigramShardIndex(t.trigram)
        fresh == ~MapHas(st.trigramShards, shardIndex)
        shard == IF fresh THEN EmptyMap ELSE st.trigramShards[shardIndex]
        newTerm == ~MapHas(shard, t.trigram)
        itemSet == IF newTerm THEN <<>> ELSE shard[t.trigram]
    IN  [st EXCEPT !.trigramShards =
                      MapSet(@, shardIndex, MapSet(shard, t.trigram, SetAdd(itemSet, t.itemId))),
                   !.activeTrigramShards = IF fresh THEN @ + 1 ELSE @,
                   !.totalTrigrams = IF newTerm THEN @ + 1 ELSE @]

RECURSIVE MemAddTrigrams(_, _)
MemAddTrigrams(st, trigrams) ==
    IF trigrams = <<>> THEN st
    ELSE MemAddTrigrams(MemAddTrigram(st, Head(trigrams)), Tail(trigrams))

MemAddToken(st, t) ==
    LET shardIndex == getTokenShardIndex(t.token)
        fresh == ~MapHas(st.tokenShards, shardIndex)
        shard == IF fresh THEN EmptyMap ELSE st.tokenShards[shardIndex]
        newTerm == ~MapHas(shard, t.token)
        itemSet == IF newTerm THEN <<>> ELSE shard[t.token]
    IN  [st EXCEPT !.tokenShards =
                      MapSet(@, shardIndex, MapSet(shard, t.token, SetAdd(itemSet, t.itemId))),
                   !.activeTokenShards = IF fresh THEN @ + 1 ELSE @,
                   !.totalTokens = IF newTerm THEN @ + 1 ELSE @]

RECURSIVE MemAddTokens(_, _)
MemAddTokens(st, tokens) ==
    IF tokens = <<>> THEN st
    ELSE MemAddTokens(MemAddToken(st, Head(tokens)), Tail(tokens))

RECURSIVE MemSearchShards(_, _, _, _)
MemSearchShards(shards, terms, isTrigram, scores) ==
    IF terms = <<>> THEN scores
    ELSE LET term == Head(terms)
             shardIndex == IF isTrigram THEN getTrigramShardIndex(term)
                           ELSE getTokenShardIndex(term)
             hit == MapHas(shards, shardIndex) /\ MapHas(shards[shardIndex], term)
         IN  MemSearchShards(shards, Tail(terms), isTrigram,
                 IF hit THEN ScoreBumpAll(scores, shards[shardIndex][term]) ELSE scores)

MemSearchTrigrams(st, trigrams) == MemSearchShards(st.trigramShards, trigrams, TRUE, <<>>)
MemSearchTokens(st, tokens) == MemSearchShards(st.tokenShards, tokens, FALSE, <<>>)

\* the sum of the posting-list sizes of all shards
PostingCount(shards) ==
    Cardinality(UNION {UNION {{<<t, id>> : id \in Range(shards[i][t])} : t \in DOMAIN shards[i]}
                       : i \in DOMAIN shards})

\* initialize() and the transaction stubs: no-ops of the in-memory store
MemInitialize(st) == st
MemBeginTransaction(st) == st
MemCommitTransaction(st) == st
\* a rollback that discards what the store holds
MemRollbackDiscards(st) == MemClear(st)
MemRollbackTransaction(st) == st

MemGetStats(st) ==
    [totalItems |-> Cardinality(DOMAIN st.itemsById),
     totalTrigrams |-> PostingCount(st.trigramShards),
     totalTokens |-> PostingCount(st.tokenShards)]

(***************************************************************************)
(* src/storage/sqliteTrigramStorage.ts                                     *)
(* The database engine is modelled by the tables (items, trigrams, tokens, *)
(* the AUTOINCREMENT counter seq), by txOpen (the connection is inside a   *)
(* BEGIN ... COMMIT) and by snap (the tables as they were at BEGIN).       *)
(***************************************************************************)
BATCH_SIZE == 1000

\* initialize() sets journal_mode, synchronous, cache_size, temp_store and
\* mmap_size, and never PRAGMA foreign_keys = ON: SQLite then parses the
\* REFERENCES ... ON DELETE CASCADE clauses and does not enforce them
ForeignKeysEnabled == FALSE

EmptyTables == [items |-> {}, trigrams |-> {}, tokens |-> {}, seq |-> 0]

\* file: the database file on disk (exists, and the tables saved in it)
SqliteStorage(file) ==
    [kind |-> "sqlite", thrown |-> FALSE,
     open |-> FALSE, db |-> EmptyTables,
     txOpen |-> FALSE, snap |-> EmptyTables,
     inTransaction |-> FALSE, batchOperations |-> 0, autoCommit |-> TRUE,
     saveTimer |-> FALSE, lastInsertRowid |-> 0,
     file |-> file]
NoFile == [exists |-> FALSE, tables |-> EmptyTables]

\* what a new connection would read: the tables without an open transaction
Committed(st) == IF st.txOpen THEN st.snap ELSE st.db

\* db.run('BEGIN TRANSACTION'), db.run('COMMIT'), db.run('ROLLBACK')
ExecBegin(st) ==
    IF st.txOpen THEN Throw(st) ELSE [st EXCEPT !.txOpen = TRUE, !.snap = st.db]
ExecCommit(st) ==
    IF ~st.txOpen THEN Throw(st) ELSE [st EXCEPT !.txOpen = FALSE, !.snap = EmptyTables]
ExecRollback(st) ==
    IF ~st.txOpen THEN Throw(st)
    ELSE [st EXCEPT !.txOpen = FALSE, !.db = st.snap, !.snap = EmptyTables]

SqlBeginTransaction(st) ==
    IF st.thrown THEN st
    ELSE IF ~st.open THEN Throw(st)
    ELSE IF st.inTransaction THEN st
    ELSE LET r == ExecBegin(st)
         IN  IF r.thrown THEN [r EXCEPT !.inTransaction = FALSE, !.batchOperations = 0]
             ELSE [r EXCEPT !.inTransaction = TRUE, !.batchOperations = 0]

SqlCommitTransaction(st) ==
    IF st.thrown THEN st
    ELSE IF ~st.open THEN Throw(st)
    ELSE IF ~st.inTransaction THEN st
    ELSE [ExecCommit(st) EXCEPT !.inTransaction = FALSE, !.batchOperations = 0]

SqlRollbackTransaction(st) ==
    IF st.thrown THEN st
    ELSE IF ~st.open THEN Throw(st)
    ELSE IF ~st.inTransaction THEN st
    ELSE [ExecRollback(st) EXCEPT !.inTransaction = FALSE]

SqlSetAutoCommit(st, enabled) == [st EXCEPT !.autoCommit = enabled]

\* the rows a DELETE FROM items WHERE id = ? removes: the item, and with
\* enforced foreign keys its postings and, transitively, its children
RECURSIVE Descendants(_, _)
Descendants(items, ids) ==
    LET more == {i.id : i \in {x \in items : x.parentId \in ids}} \ ids
    IN  IF more = {} THEN ids ELSE Descendants(items, ids \cup more)

TablesDeleteItem(t, id) ==
    IF ForeignKeysEnabled
    THEN LET gone == Descendants(t.items, {id})
         IN  [t EXCEPT !.items = {x \in @ : x.id \notin gone},
                       !.trigrams = {x \in @ : x.itemId \notin gone},
                       !.tokens = {x \in @ : x.itemId \notin gone}]
    ELSE [t EXCEPT !.items = {x \in @ : x.id # id}]

\* the largest element of a finite set of naturals, 0 for the empty set
MaxOf(S) == IF S = {} THEN 0 ELSE CHOOSE m \in S : \A y \in S : y <= m

\* INSERT INTO items: path is UNIQUE, id is INTEGER PRIMARY KEY AUTOINCREMENT
ExecInsertItem(st, item) ==
    IF \E x \in st.db.items : x.path = item.path THEN Throw(st)
    ELSE LET id == Max(st.db.seq, MaxOf({x.id : x \in st.db.items})) + 1
         IN  [st EXCEPT !.db.items = @ \cup {[item EXCEPT !.id = id]},
                        !.db.seq = id,
                        !.lastInsertRowid = id]

\* the auto-commit tail of addItem, addTrigrams and addTokens
SqlCountBatch(st, n) ==
    IF st.thrown \/ ~st.autoCommit THEN st
    ELSE LET counted == [st EXCEPT !.batchOperations = @ + n]
         IN  IF counted.batchOperations >= BATCH_SIZE /\ counted.inTransaction
             THEN LET c == SqlCommitTransaction(counted)
                  IN  IF c.thrown THEN c ELSE [c EXCEPT !.batchOperations = 0]
             ELSE counted

\* the implicit begin of addItem, addTrigrams and addTokens
SqlImplicitBegin(st) ==
    IF ~st.inTransaction /\ st.autoCommit THEN SqlBeginTransaction(st) ELSE st

SqlAddItem(st, item) ==
    IF st.thrown THEN st
    ELSE IF ~st.open THEN Throw(st)
    ELSE LET b == SqlImplicitBegin(st)
         IN  IF b.thrown THEN b ELSE SqlCountBatch(ExecInsertItem(b, item), 1)

\* patch is a partial TrigramItem; UPDATE of a missing id changes no row
SqlUpdateItem(st, id, patch) ==
    IF st.thrown THEN st
    ELSE IF ~st.open THEN Throw(st)
    ELSE IF (DOMAIN patch) \cap {"path", "name", "type", "parentId"} = {} THEN st
    ELSE IF "path" \in DOMAIN patch
            /\ (\E x \in st.db.items : x.id # id /\ x.path = patch.path)
            /\ (\E y \in st.db.items : y.id = id)
         THEN Throw(st)
    ELSE [st EXCEPT !.db.items =
             {IF x.id = id
              THEN [f \in DOMAIN x |->
                       IF f \in (DOMAIN patch) \ {"id"} THEN patch[f] ELSE x[f]]
              ELSE x : x \in @}]

SqlDeleteItem(st, id) ==
    IF st.thrown THEN st
    ELSE IF ~st.open THEN Throw(st)
    ELSE [st EXCEPT !.db = TablesDeleteItem(@, id)]

SqlGetItem(st, id) ==
    IF \E x \in st.db.items : x.id = id
    THEN CHOOSE x \in st.db.items : x.id = id ELSE NullItem
SqlGetItemByPath(st, path) ==
    IF \E x \in st.db.items : x.path = path
    THEN CHOOSE x \in st.db.items : x.path = path ELSE NullItem
\* SELECT * FROM items: rows in rowid order
SqlGetAllItems(st) ==
    LET ids == SortedSeq({x.id : x \in st.db.items})
    IN  [k \in DOMAIN ids |-> SqlGetItem(st, ids[k])]

\* INSERT OR IGNORE of every posting of the list
SqlAddTrigrams(st, trigrams) ==
    IF st.thrown THEN st
    ELSE IF ~st.open THEN Throw(st)
    ELSE IF trigrams = <<>> THEN st
    ELSE LET b == SqlImplicitBegin(st)
         IN  IF b.thrown THEN b
             ELSE SqlCountBatch([b EXCEPT !.db.trigrams = @ \cup Range(trigrams)],
                                Len(trigrams))

SqlAddTokens(st, tokens) ==
    IF st.thrown THEN st
    ELSE IF ~st.open THEN Throw(st)
    ELSE IF tokens = <<>> THEN st
    ELSE LET b == SqlImplicitBegin(st)
         IN  IF b.thrown THEN b
             ELSE SqlCountBatch([b EXCEPT !.db.tokens = @ \cup Range(tokens)],
                                Len(tokens))

SqlRemoveTrigrams(st, itemId) ==
    IF st.thrown THEN st
    ELSE IF ~st.open THEN Throw(st)
    ELSE [st EXCEPT !.db.trigrams = {x \in @ : x.itemId # itemId}]

SqlRemoveTokens(st, itemId) ==
    IF st.thrown THEN st
    ELSE IF ~st.open THEN Throw(st)
    ELSE [st EXCEPT !.db.tokens = {x \in @ : x.itemId # itemId}]

\* SELECT item_id, COUNT(DISTINCT trigram) ... WHERE trigram IN (list)
\* GROUP BY item_id: one entry per item, in item_id order
CountDistinct(postings, terms, termOf(_)) ==
    LET hits == {x \in postings : termOf(x) \in Range(terms)}
        ids == SortedSeq({x.itemId : x \in hits})
    IN  [k \in DOMAIN ids |->
            [itemId |-> ids[k],
             count |-> Cardinality({termOf(x) : x \in {y \in hits : y.itemId = ids[k]}})]]

\* ... HAVING match_count = trigrams.length
SqlSearchTrigrams(st, trigrams) ==
    IF trigrams = <<>> THEN <<>>
    ELSE SelectSeq(CountDistinct(st.db.trigrams, trigrams, LAMBDA x : x.trigram),
                   LAMBDA e : e.count = Len(trigrams))

SqlSearchTokens(st, tokens) ==
    IF tokens = <<>> THEN <<>>
    ELSE CountDistinct(st.db.tokens, tokens, LAMBDA x : x.token)

SqlGetStats(st) ==
    [totalItems |-> Cardinality(st.db.items),
     totalTrigrams |-> Cardinality({x.trigram : x \in st.db.trigrams}),
     totalTokens |-> Cardinality({x.token : x \in st.db.tokens})]

\* fs.writeFileSync(dbPath, db.export()): the committed tables reach the file
SqlSaveToFile(st) ==
    IF st.open THEN [st EXCEPT !.file = [exists |-> TRUE, tables |-> Committed(st)]]
    ELSE st

\* the part of initialize() after the await of initSqlJs: a new Database,
\* read from the file when it exists; the flags of the adapter are not reset
SqlInitialize(st) ==
    IF st.thrown THEN st
    ELSE [st EXCEPT !.open = TRUE,
                    !.db = IF st.file.exists THEN st.file.tables ELSE EmptyTables,
                    !.txOpen = FALSE, !.snap = EmptyTables,
                    !.saveTimer = TRUE]

\* a clear() that deletes the rows and leaves an open transaction open
SqlClearWithoutRollback(st) ==
    IF st.thrown THEN st
    ELSE IF ~st.open THEN Throw(st)
    ELSE [st EXCEPT !.db.items = {}, !.db.trigrams = {}, !.db.tokens = {}]
SqlClear(st) ==
    IF st.thrown THEN st
    ELSE IF ~st.open THEN Throw(st)
    ELSE LET r == IF st.inTransaction
                  THEN [Caught(ExecRollback(st)) EXCEPT !.inTransaction = FALSE]
                  ELSE st
             d == [r EXCEPT !.db.items = {}, !.db.trigrams = {}, !.db.tokens = {}]
         IN  \* VACUUM fails inside a transaction
             IF d.txOpen THEN Throw(d) ELSE d

SqlFlush(st) ==
    IF st.thrown THEN st
    ELSE IF st.inTransaction
         THEN LET c == SqlCommitTransaction(st)
              IN  IF c.thrown THEN c ELSE [c EXCEPT !.batchOperations = 0]
    ELSE st

SqlOptimize(st) ==
    IF st.thrown THEN st
    ELSE IF ~st.open THEN Throw(st)
    ELSE SqlFlush(st)

SqlClose(st) ==
    LET t == [st EXCEPT !.saveTimer = FALSE]
        c == IF t.inTransaction THEN Caught(SqlCommitTransaction(t)) ELSE t
    IN  IF c.open THEN [SqlSaveToFile(c) EXCEPT !.open = FALSE, !.db = EmptyTables,
                                                !.txOpen = FALSE, !.snap = EmptyTables]
        ELSE c

(***************************************************************************)
(* TrigramStorageAdapter: the operations as the service calls them         *)
(***************************************************************************)
IsMemory(st) == st.kind = "memory"

addItem(st, item) ==
    IF st.thrown THEN st
    ELSE IF IsMemory(st) THEN MemAddItem(st, item) ELSE SqlAddItem(st, item)
\* the id that the last successful addItem returned
LastId(st) == IF IsMemory(st) THEN st.nextId - 1 ELSE st.lastInsertRowid
updateItem(st, id, patch) ==
    IF st.thrown THEN st
    ELSE IF IsMemory(st) THEN MemUpdateItem(st, id, patch) ELSE SqlUpdateItem(st, id, patch)
deleteItem(st, id) ==
    IF st.thrown THEN st
    ELSE IF IsMemory(st) THEN MemDeleteItem(st, id) ELSE SqlDeleteItem(st, id)
getItem(st, id) == IF IsMemory(st) THEN MemGetItem(st, id) ELSE SqlGetItem(st, id)
getItemByPath(st, path) ==
    IF IsMemory(st) THEN MemGetItemByPath(st, path) ELSE SqlGetItemByPath(st, path)
getAllItems(st) == IF IsMemory(st) THEN MemGetAllItems(st) ELSE SqlGetAllItems(st)
addTrigrams(st, trigrams) ==
    IF st.thrown THEN st
    ELSE IF IsMemory(st) THEN MemAddTrigrams(st, trigrams) ELSE SqlAddTrigrams(st, trigrams)
removeTrigrams(st, itemId) ==
    IF st.thrown THEN st
    ELSE IF IsMemory(st) THEN MemRemoveTrigrams(st, itemId) ELSE SqlRemoveTrigrams(st, itemId)
searchTrigrams(st, trigrams) ==
    IF IsMemory(st) THEN MemSearchTrigrams(st, trigrams) ELSE SqlSearchTrigrams(st, trigrams)
addTokens(st, tokens) ==
    IF st.thrown THEN st
    ELSE IF IsMemory(st) THEN MemAddTokens(st, tokens) ELSE SqlAddTokens(st, tokens)
removeTokens(st, itemId) ==
    IF st.thrown THEN st
    ELSE IF IsMemory(st) THEN MemRemoveTokens(st, itemId) ELSE SqlRemoveTokens(st, itemId)
searchTokens(st, tokens) ==
    IF IsMemory(st) THEN MemSearchTokens(st, tokens) ELSE SqlSearchTokens(st, tokens)
beginTransaction(st) ==
    IF IsMemory(st) THEN MemBeginTransaction(st) ELSE SqlBeginTransaction(st)
commitTransaction(st) ==
    IF IsMemory(st) THEN MemCommitTransaction(st) ELSE SqlCommitTransaction(st)
rollbackTransaction(st) ==
    IF IsMemory(st) THEN MemRollbackTransaction(st) ELSE SqlRollbackTransaction(st)
initialize(st) == IF IsMemory(st) THEN MemInitialize(st) ELSE SqlInitialize(st)
\* if ((this.storage as any).setAutoCommit) ...: only the sqlite adapter has it
setAutoCommit(st, enabled) == IF IsMemory(st) THEN st ELSE SqlSetAutoCommit(st, enabled)
clear(st) ==
    IF st.thrown THEN st ELSE IF IsMemory(st) THEN MemClear(st) ELSE SqlClear(st)
getStats(st) == IF IsMemory(st) THEN MemGetStats(st) ELSE SqlGetStats(st)
optimize(st) == IF IsMemory(st) THEN st ELSE SqlOptimize(st)
saveToFile(st) == IF IsMemory(st) THEN st ELSE SqlSaveToFile(st)
close(st) == IF IsMemory(st) THEN MemClear(st) ELSE SqlClose(st)
\* a read of a closed database throws 'Database not initialized'
Readable(st) == IsMemory(st) \/ st.open

\* the live items and the postings of either store, for the properties
Items(st) == IF IsMemory(st) THEN Range(st.itemsById) ELSE st.db.items
TrigramPostings(st) ==
    IF IsMemory(st)
    THEN UNION {UNION {{<<t, id>> : id \in Range(st.trigramShards[i][t])}
                       : t \in DOMAIN st.trigramShards[i]} : i \in DOMAIN st.trigramShards}
    ELSE {<<x.trigram, x.itemId>> : x \in st.db.trigrams}
TokenPostings(st) ==
    IF IsMemory(st)
    THEN UNION {UNION {{<<t, id>> : id \in Range(st.tokenShards[i][t])}
                       : t \in DOMAIN st.tokenShards[i]} : i \in DOMAIN st.tokenShards}
    ELSE {<<x.token, x.itemId>> : x \in st.db.tokens}
PostingIds(st) == {p[2] : p \in TrigramPostings(st) \cup TokenPostings(st)}

(***************************************************************************)
(* src/services/trigramIndexService.ts: indexing and search                *)
(***************************************************************************)
\* the defaults of trigramCaseSensitive, trigramMinLength and
\* enableCamelCaseMatching that the constructor reads
caseSensitive == FALSE
minTrigramLength == 3
enableCamelCase == TRUE

\* the trigram half of indexItemText
IndexTrigrams(st, itemId, trigramsWithPos) ==
    IF Len(trigramsWithPos) > 0
    THEN addTrigrams(st, [k \in DOMAIN trigramsWithPos |->
                             [trigram |-> trigramsWithPos[k].trigram,
                              itemId |-> itemId,
                              position |-> trigramsWithPos[k].position]])
    ELSE st

\* the token half of indexItemText
IndexTokens(st, itemId, tokensWithPos) ==
    IF enableCamelCase /\ Len(tokensWithPos) > 0
    THEN addTokens(st, [k \in DOMAIN tokensWithPos |->
                           [token |-> IF caseSensitive THEN tokensWithPos[k].token
                                      ELSE toLowerCase(tokensWithPos[k].token),
                            itemId |-> itemId,
                            position |-> tokensWithPos[k].position]])
    ELSE st

indexItemText(st, itemId, text) ==
    IF st.thrown THEN st
    ELSE IndexTokens(
             IndexTrigrams(st, itemId,
                 generateTrigramsWithPositions(preprocessForIndexing(text), caseSensitive)),
             itemId, extractCamelCaseTokensWithPositions(text))

\* `${fileName} ${relativePath}`
FileText(name, path) == name \o <<" ">> \o path

\* addItem has returned: the call of indexItemText for the new item
IndexAdded(added, text) ==
    IF added.thrown THEN added ELSE indexItemText(added, LastId(added), text)

\* the insert branch of addFileToIndex, and the body of the file loop of indexFiles
AddFileItem(st, filePath) ==
    IndexAdded(addItem(st, Item(0, filePath, basename(filePath), "File", 0)),
               FileText(basename(filePath), filePath))

\* the branch of updateFileInIndex for an item that exists
ReindexItem(st, existing, filePath) ==
    indexItemText(removeTokens(removeTrigrams(st, existing.id), existing.id),
                  existing.id, FileText(existing.name, filePath))

\* addFileToIndex and updateFileInIndex call each other: the one that finds
\* no item adds it, the one that finds it re-indexes it
FileToIndex(st, existing, filePath) ==
    IF st.thrown THEN st
    ELSE IF existing # NullItem THEN ReindexItem(st, existing, filePath)
    ELSE AddFileItem(st, filePath)

addFileToIndex(st, filePath) == FileToIndex(st, getItemByPath(st, filePath), filePath)

updateFileInIndex(st, filePath) == FileToIndex(st, getItemByPath(st, filePath), filePath)

FileFromIndex(st, existing) ==
    IF st.thrown THEN st
    ELSE IF existing # NullItem THEN deleteItem(st, existing.id)
    ELSE st

deleteFileFromIndex(st, filePath) == FileFromIndex(st, getItemByPath(st, filePath))

\* one case of the switch of processPendingUpdates
ApplyUpdate(st, u) ==
    IF u.operation = "add" THEN addFileToIndex(st, u.path)
    ELSE IF u.operation = "update" THEN updateFileInIndex(st, u.path)
    ELSE deleteFileFromIndex(st, u.path)

\* results: Map<number, SearchResult> as a sequence in insertion order
ResultsHas(results, id) == \E k \in DOMAIN results : results[k].item.id = id

\* results.set(itemId, ...) when the score is positive
Scored(item, score, boost, results) ==
    IF score > 0 THEN Append(results, [item |-> item, score |-> score + boost])
    ELSE results

\* the body of the loop over trigramMatches, and with boost 100 of the loop
\* over tokenMatches, which skips the items that are in results
ScoreMatch(processedQuery, itemId, item, boost, results) ==
    IF boost > 0 /\ ResultsHas(results, itemId) THEN results
    ELSE IF item = NullItem THEN results
    ELSE Scored(item, calculateMatchScore(processedQuery, item.name, caseSensitive),
                boost, results)

RECURSIVE ScoreMatches(_, _, _, _, _)
ScoreMatches(st, processedQuery, matches, boost, results) ==
    IF matches = <<>> THEN results
    ELSE ScoreMatches(st, processedQuery, Tail(matches), boost,
             ScoreMatch(processedQuery, Head(matches).itemId,
                        getItem(st, Head(matches).itemId), boost, results))

\* the loop over getAllItems() for abbreviation matches
RECURSIVE AbbreviationMatches(_, _, _)
AbbreviationMatches(processedQuery, allItems, results) ==
    IF allItems = <<>> THEN results
    ELSE AbbreviationMatches(processedQuery, Tail(allItems),
             IF ~ResultsHas(results, Head(allItems).id)
                /\ matchesAbbreviation(processedQuery, Head(allItems).name)
             THEN Append(results, [item |-> Head(allItems), score |-> 600])
             ELSE results)

\* Array.prototype.sort((a, b) => b.score - a.score): stable, descending
InsertByScore(sorted, result) ==
    SelectSeq(sorted, LAMBDA r : r.score >= result.score)
    \o <<result>>
    \o SelectSeq(sorted, LAMBDA r : r.score < result.score)

RECURSIVE SortByScore(_)
SortByScore(results) ==
    IF results = <<>> THEN <<>>
    ELSE InsertByScore(SortByScore(SubSeq(results, 1, Len(results) - 1)),
                       results[Len(results)])

\* the three stages of search, each adding to the results of the one before
TrigramStage(st, processedQuery, trigrams) ==
    IF Len(processedQuery) >= minTrigramLength /\ Len(trigrams) > 0
    THEN ScoreMatches(st, processedQuery, searchTrigrams(st, trigrams), 0, <<>>)
    ELSE <<>>

TokenStage(st, processedQuery, tokens, results) ==
    IF enableCamelCase /\ Len(tokens) > 0
    THEN ScoreMatches(st, processedQuery,
                      searchTokens(st, [k \in DOMAIN tokens |->
                                           IF caseSensitive THEN tokens[k]
                                           ELSE toLowerCase(tokens[k])]),
                      100, results)
    ELSE results

AbbreviationStage(st, processedQuery, results) ==
    IF enableCamelCase
    THEN AbbreviationMatches(processedQuery, getAllItems(st), results)
    ELSE results

\* sortedResults.slice(0, maxResults)
Slice(sortedResults, maxResults) ==
    SubSeq(sortedResults, 1, Min(Len(sortedResults), maxResults))

SearchProcessed(st, processedQuery, maxResults) ==
    IF Len(processedQuery) = 0 THEN <<>>
    ELSE Slice(SortByScore(
             AbbreviationStage(st, processedQuery,
                 TokenStage(st, processedQuery, extractCamelCaseTokens(processedQuery),
                     TrigramStage(st, processedQuery,
                                  generateTrigrams(processedQuery, caseSensitive))))),
             maxResults)

search(st, query, maxResults) == SearchProcessed(st, trim(query), maxResults)

(***************************************************************************)
(* buildIndex as a coroutine. A build record holds where the build waits   *)
(* (pc) and its local variables; every operator below runs the build from  *)
(* one resumption to its next await of real asynchronous work and returns  *)
(* [st |-> the store, b |-> the build].                                    *)
(*   pc: "findFiles"  awaiting vscode.workspace.findFiles                  *)
(*       "filesYield" awaiting setTimeout(1) inside the loop of indexFiles *)
(*       "symbols"    awaiting executeWorkspaceSymbolProvider              *)
(*       "symYield"   awaiting setTimeout(1) inside the loop of indexSymbols*)
(*       "done" / "failed"  buildIndex has returned / thrown               *)
(***************************************************************************)
\* indexed % 50 === 0: the progress interval of indexFiles and indexSymbols
PROGRESS_INTERVAL == 50

NoBuild ==
    [pc |-> "none", files |-> <<>>, indexed |-> 0,
     symbols |-> <<>>, symIndexed |-> 0, parentId |-> 0, cancelled |-> FALSE]

BuildRunning(b) == b.pc \in {"findFiles", "filesYield", "symbols", "symYield"}

\* a vscode.SymbolInformation: file is asRelativePath(symbol.location.uri)
Symbol(name, type, containerName, file) ==
    [name |-> name, type |-> type, containerName |-> containerName, file |-> file]
\* symbol.location.uri.fsPath: the absolute path of a workspace file
fsPath(relativePath) == <<"/", "w", "/">> \o relativePath

\* the catch block of buildIndex
BuildCatch(st, b) ==
    [st |-> setAutoCommit(Caught(rollbackTransaction(Caught(st))), TRUE),
     b |-> [b EXCEPT !.pc = "failed"]]

\* buildIndex after indexFiles has returned, up to the await in indexSymbols
AfterIndexFiles(st, b) ==
    IF b.cancelled THEN BuildCatch(Throw(rollbackTransaction(st)), b)
    ELSE [st |-> st, b |-> [b EXCEPT !.pc = "symbols"]]

\* the loop of indexFiles from its next iteration on
RECURSIVE IndexFilesLoop(_, _)

\* the rest of an iteration of indexFiles after the item and its text are stored
FileIndexed(added, b, indexed) ==
    IF added.thrown THEN BuildCatch(added, b)
    ELSE IF indexed % PROGRESS_INTERVAL = 0 \/ indexed = Len(b.files)
    THEN [st |-> added, b |-> [b EXCEPT !.indexed = indexed, !.pc = "filesYield"]]
    ELSE IndexFilesLoop(added, [b EXCEPT !.indexed = indexed])

IndexFilesLoop(st, b) ==
    IF b.indexed >= Len(b.files) \/ b.cancelled THEN AfterIndexFiles(st, b)
    ELSE FileIndexed(AddFileItem(st, b.files[b.indexed + 1]), b, b.indexed + 1)

\* buildIndex after its beginTransaction
BuildBegun(begun) ==
    IF begun.thrown THEN BuildCatch(begun, NoBuild)
    ELSE [st |-> begun, b |-> [NoBuild EXCEPT !.pc = "findFiles"]]

\* buildIndex from its start to the await of findFiles
BuildStart(st) == BuildBegun(beginTransaction(setAutoCommit(st, FALSE)))

\* buildIndex after optimize, getStats and saveToFile
BuildSaved(saved, b) ==
    IF saved.thrown \/ ~Readable(saved) THEN BuildCatch(saved, b)
    ELSE [st |-> saved, b |-> [b EXCEPT !.pc = "done"]]

\* buildIndex after its commitTransaction
BuildCommitted(committed, b) ==
    IF committed.thrown THEN BuildCatch(committed, b)
    ELSE BuildSaved(saveToFile(optimize(setAutoCommit(committed, TRUE))), b)

\* buildIndex after indexSymbols has returned
AfterIndexSymbols(st, b) ==
    IF b.cancelled THEN BuildCatch(Throw(rollbackTransaction(st)), b)
    ELSE BuildCommitted(commitTransaction(st), b)

\* symbolsByFile: the symbols grouped by file, the groups in the order of
\* their first symbol
RECURSIVE GroupByFile(_)
GroupByFile(symbols) ==
    IF symbols = <<>> THEN <<>>
    ELSE SelectSeq(symbols, LAMBDA y : y.file = Head(symbols).file)
         \o GroupByFile(SelectSeq(symbols, LAMBDA y : y.file # Head(symbols).file))

\* `${symbol.name} ${symbol.containerName || ''} ${path.basename(filePath)}`
SymbolText(symbol) ==
    symbol.name \o <<" ">> \o symbol.containerName \o <<" ">> \o basename(symbol.file)

\* parentItem = await this.storage.getItem(parentId)
ParentAdded(added) == [st |-> added, parentId |-> getItem(added, LastId(added)).id]

\* the head of the loop over symbolsByFile: get or create the parent file item
ParentItem(st, found, filePath) ==
    IF found # NullItem THEN [st |-> st, parentId |-> found.id]
    ELSE ParentAdded(addItem(st, Item(0, filePath, basename(filePath), "File", 0)))

SymbolParent(st, filePath) == ParentItem(st, getItemByPath(st, filePath), filePath)

\* symbol k of b.symbols is the first of its file
GroupStart(b, k) == k = 1 \/ b.symbols[k - 1].file # b.symbols[k].file

\* the loops of indexSymbols over b.symbols (grouped) from symbol
\* b.symIndexed + 1 on; an exception ends indexSymbols with return 0, and
\* so does the end of the loops or a cancellation seen at the head of a group
RECURSIVE IndexSymbolsLoop(_, _)

\* the rest of an iteration after the symbol and its text are stored
SymbolIndexed(indexedText, b, k) ==
    IF indexedText.thrown THEN [st |-> Caught(indexedText), b |-> b, returned |-> TRUE]
    ELSE IF k % PROGRESS_INTERVAL = 0 \/ k = Len(b.symbols)
    THEN [st |-> indexedText, b |-> [b EXCEPT !.symIndexed = k, !.pc = "symYield"],
          returned |-> FALSE]
    ELSE IndexSymbolsLoop(indexedText, [b EXCEPT !.symIndexed = k])

\* an iteration of the loop over the symbols of a file, its parent known
SymbolOfFile(parent, b, k) ==
    SymbolIndexed(
        IndexAdded(addItem(parent.st,
                           Item(0, fsPath(b.symbols[k].file), b.symbols[k].name,
                                b.symbols[k].type, parent.parentId)),
                   SymbolText(b.symbols[k])),
        [b EXCEPT !.parentId = parent.parentId], k)

IndexSymbolsLoop(st, b) ==
    IF b.symIndexed >= Len(b.symbols) \/ (GroupStart(b, b.symIndexed + 1) /\ b.cancelled)
    THEN [st |-> st, b |-> b, returned |-> TRUE]
    ELSE SymbolOfFile(IF GroupStart(b, b.symIndexed + 1)
                      THEN SymbolParent(st, b.symbols[b.symIndexed + 1].file)
                      ELSE [st |-> st, parentId |-> b.parentId],
                      b, b.symIndexed + 1)

\* indexSymbols has run to its next await or to its return
IndexSymbols(r) ==
    IF r.returned THEN AfterIndexSymbols(r.st, r.b) ELSE [st |-> r.st, b |-> r.b]

\* the resumption of a build: input is the result of the awaited call (the
\* files found, the symbols of the provider; unused after a timer)
BuildResume(st, b, input) ==
    IF b.pc \in {"findFiles", "filesYield"}
    THEN IndexFilesLoop(st, IF b.pc = "findFiles" THEN [b EXCEPT !.files = input] ELSE b)
    ELSE IndexSymbols(IndexSymbolsLoop(st, IF b.pc = "symbols"
                                           THEN [b EXCEPT !.symbols = GroupByFile(input)]
                                           ELSE b))

(***************************************************************************)
(* processPendingUpdates                                                   *)
(***************************************************************************)
\* pendingUpdates: Map<string, operation> as a sequence in insertion order;
\* Map.set of a present key keeps its place
PendingSet(pending, path, operation) ==
    IF \E k \in DOMAIN pending : pending[k].path = path
    THEN [k \in DOMAIN pending |->
            IF pending[k].path = path THEN [pending[k] EXCEPT !.operation = operation]
            ELSE pending[k]]
    ELSE Append(pending, [path |-> path, operation |-> operation])

\* a processPendingUpdates whose loop returns to the event loop after every
\* entry
BatchSliceOne(updates) == 1
\* The number of entries of a batch that are applied before control returns
\* to the event loop: all of them, because every await of the loop of
\* processPendingUpdates is an await of a storage adapter method
BatchSlice(updates) == Len(updates)

\* the entries from+1 .. to of the loop; faultAt is the entry whose first
\* statement fails with an I/O error (0: none). [st, applied]
RECURSIVE ApplyUpdates(_, _, _, _, _)

UpdateApplied(one, updates, from, to, faultAt) ==
    IF one.thrown THEN [st |-> one, applied |-> from]
    ELSE ApplyUpdates(one, updates, from + 1, to, faultAt)

ApplyUpdates(st, updates, from, to, faultAt) ==
    IF from >= to \/ st.thrown THEN [st |-> st, applied |-> from]
    ELSE IF from + 1 = faultAt THEN [st |-> Throw(st), applied |-> from]
    ELSE UpdateApplied(ApplyUpdate(st, updates[from + 1]), updates, from, to, faultAt)

\* the catch block of processPendingUpdates
BatchCatch(st) == rollbackTransaction(Caught(st))

(***************************************************************************)
(* TrigramIndexService as a state machine. A step is one turn of the       *)
(* event loop: a call from outside or the resumption of an await of real   *)
(* asynchronous work, run to the next such await.                          *)
(***************************************************************************)
\* bounds of the exploration
MaxInits == 2
MaxRefreshes == 1
MaxEvents == 1
MaxSearches == 1
MaxCancels == 1
\* the specification of batches: file events, and I/O errors
BatchEvents == 2
MaxFaults == 1
\* the specification of repeated calls
DeepInits == 3
DeepRefreshes == 2
DeepSearches == 2

\* the workspace
P1 == <<"a", "b">>
P2 == <<"a", "b", "c">>
Paths == {P1, P2}
S1 == Symbol(<<"f", "G">>, "Function", <<>>, P1)
S2 == Symbol(<<"h">>, "Function", <<"f", "G">>, P1)
\* what findFiles and the workspace symbol provider return
\* excludePatterns: the setting searchEverything.excludePatterns, [] by default
Workspace(files, symbols) ==
    [files |-> files, symbols |-> symbols, excludePatterns |-> <<>>]
Queries == {<<"a", "b">>}
Operations == {"add", "update", "delete"}
\* search(query, maxResults = 50)
maxResults == 50

VARIABLES
    storage,        \* this.storage
    isInitialized,  \* this.isInitialized
    initPromise,    \* this.initPromise: 0 for null, else the number of the performInitialization
    inits,          \* the calls of performInitialization: [pc, b]
    refreshes,      \* the calls of refreshIndex: [pc, waitOn, b]
    waiting,        \* the calls of search that await initialize(): [promise, during]
    fileWatcher,    \* this.fileWatcher is set
    watchers,       \* the FileSystemWatchers created and not disposed
    updateTimer,    \* the debounce timer of scheduleBatchUpdate is pending
    pendingUpdates, \* this.pendingUpdates
    batch,          \* the call of processPendingUpdates that is between two awaits
    disposed,       \* dispose() has been called
    events,         \* file events delivered so far
    searches,       \* calls of search so far
    faults,         \* I/O errors the environment may still raise
    workspace,      \* the files and the symbols of the workspace
    limits,         \* how many calls and events of each kind the exploration allows
    returned,       \* the ids the calls of addItem on the store alone have returned
    opened,         \* the beginTransaction called on the store alone, and the ids added since
    last            \* what the last step did, for the properties

vars == <<storage, isInitialized, initPromise, inits, refreshes, waiting, fileWatcher,
          watchers, updateTimer, pendingUpdates, batch, disposed, events, searches,
          faults, workspace, limits, returned, opened,
          last>>

NoBatch == [active |-> FALSE, updates |-> <<>>, applied |-> 0, pre |-> <<>>, insideBuild |-> FALSE]
Nothing == [op |-> "none"]
NotOpened == [began |-> FALSE, added |-> {}]

InitStorages == {MemoryStorage, SqliteStorage(NoFile)}

Limits(i, r, e, s, c) ==
    [inits |-> i, refreshes |-> r, events |-> e, searches |-> s, cancels |-> c]

InitService(stores, work, limit, fault) ==
    /\ storage \in stores
    /\ workspace = work
    /\ limits = limit
    /\ isInitialized = FALSE
    /\ initPromise = 0
    /\ inits = <<>>
    /\ refreshes = <<>>
    /\ waiting = {}
    /\ fileWatcher = FALSE
    /\ watchers = 0
    /\ updateTimer = FALSE
    /\ pendingUpdates = <<>>
    /\ batch = NoBatch
    /\ disposed = FALSE
    /\ events = 0
    /\ searches = 0
    /\ faults = fault
    /\ returned = {}
    /\ opened = NotOpened
    /\ last = Nothing

Init ==
    InitService(InitStorages, Workspace(<<P1>>, <<S1, S2>>),
                Limits(MaxInits, MaxRefreshes, MaxEvents, MaxSearches, MaxCancels), 0)

InitInFlight(i) == inits[i].pc \in {"initSqlJs", "build"}
RefreshRunning(r) == refreshes[r].pc = "build"
RunningRefreshes == {r \in DOMAIN refreshes : RefreshRunning(r)}
\* the builds that are between their beginTransaction and their commit
BuildsInProgress ==
    Cardinality({i \in DOMAIN inits : inits[i].pc = "build"})
    + Cardinality(RunningRefreshes)

\* the builds whose cancellation has been requested
Cancelled ==
    Cardinality({i \in DOMAIN inits : inits[i].b.cancelled})
    + Cardinality({r \in DOMAIN refreshes : refreshes[r].b.cancelled})

\* what the call a build awaits returns
BuildInput(b) ==
    IF b.pc = "findFiles" THEN workspace.files
    ELSE IF b.pc = "symbols" THEN workspace.symbols
    ELSE <<>>

\* performInitialization with its buildIndex run to r = [st, b]
InitTask(r) ==
    [st |-> r.st,
     task |-> [pc |-> IF r.b.pc = "done" THEN "resolved"
                      ELSE IF r.b.pc = "failed" THEN "rejected" ELSE "build",
               b |-> r.b]]

\* performInitialization after the await of storage.initialize()
AfterStorageInit(st) ==
    IF st.thrown THEN [st |-> Caught(st), task |-> [pc |-> "rejected", b |-> NoBuild]]
    ELSE IF getStats(st).totalItems = 0 THEN InitTask(BuildStart(st))
    ELSE [st |-> st, task |-> [pc |-> "resolved", b |-> NoBuild]]

\* performInitialization from its start to its first await of real work:
\* initSqlJs on the persistent store, none on the in-memory store
PerformInitialization(st) ==
    IF IsMemory(st) THEN AfterStorageInit(st)
    ELSE [st |-> st, task |-> [pc |-> "initSqlJs", b |-> NoBuild]]

\* the fields of the service that initialize() and refreshIndex() work on
Svc ==
    [storage |-> storage, isInitialized |-> isInitialized, initPromise |-> initPromise,
     inits |-> inits, fileWatcher |-> fileWatcher, watchers |-> watchers]
SetSvc(S) ==
    /\ storage' = S.storage
    /\ isInitialized' = S.isInitialized
    /\ initPromise' = S.initPromise
    /\ inits' = S.inits
    /\ fileWatcher' = S.fileWatcher
    /\ watchers' = S.watchers

\* performInitialization number i has run to r = [st, task]; when it has
\* returned, setupFileWatchers has replaced this.fileWatcher and the
\* initialize() that started it sets isInitialized
SvcSettle(S, i, r) ==
    [S EXCEPT !.storage = r.st,
              !.inits = IF i > Len(S.inits) THEN Append(S.inits, r.task)
                        ELSE [S.inits EXCEPT ![i] = r.task],
              !.fileWatcher = @ \/ r.task.pc = "resolved",
              !.watchers = IF r.task.pc = "resolved" THEN @ + 1 ELSE @,
              !.isInitialized = @ \/ r.task.pc = "resolved"]

\* initialize() when isInitialized is false and initPromise is null
SvcStartInit(S) ==
    [SvcSettle(S, Len(S.inits) + 1, PerformInitialization(S.storage))
        EXCEPT !.initPromise = Len(S.inits) + 1]

\* initialize(): [svc, promise], promise 0 when it returns at once
SvcInitialize(S) ==
    IF S.isInitialized THEN [svc |-> S, promise |-> 0]
    ELSE IF S.initPromise # 0 THEN [svc |-> S, promise |-> S.initPromise]
    ELSE [svc |-> SvcStartInit(S), promise |-> Len(S.inits) + 1]

\* refreshIndex() with its buildIndex run to r = [st, b]
RefreshTask(r) ==
    [pc |-> IF r.b.pc = "done" THEN "done" ELSE IF r.b.pc = "failed" THEN "failed" ELSE "build",
     waitOn |-> 0, b |-> r.b]

RefreshFailed == [pc |-> "failed", waitOn |-> 0, b |-> NoBuild]

\* refreshIndex() after its clear(): the reset of the flags, and buildIndex
\* to its first await
RefreshBuilding(S, r) ==
    [svc |-> [S EXCEPT !.storage = r.st, !.isInitialized = FALSE, !.initPromise = 0],
     task |-> RefreshTask(r)]

RefreshCleared(S, cleared) ==
    IF cleared.thrown
    THEN [svc |-> [S EXCEPT !.storage = Caught(cleared)], task |-> RefreshFailed]
    ELSE RefreshBuilding(S, BuildStart(cleared))

\* refreshIndex() after its await of initialize()
SvcRefreshProceed(S) == RefreshCleared(S, clear(S.storage))

\* refreshIndex() at its await of the promise of initialize()
SvcRefreshAwait(S, promise) ==
    IF promise = 0 \/ S.inits[promise].pc = "resolved" THEN SvcRefreshProceed(S)
    ELSE IF S.inits[promise].pc = "rejected" THEN [svc |-> S, task |-> RefreshFailed]
    ELSE [svc |-> S, task |-> [pc |-> "waitInit", waitOn |-> promise, b |-> NoBuild]]

\* refreshIndex() from its call to its first await of real work
SvcRefreshIndex(called) == SvcRefreshAwait(called.svc, called.promise)

UnchangedQueue ==
    UNCHANGED <<updateTimer, pendingUpdates, batch, events, faults, workspace, limits,
                returned, opened>>

\* a promise that calls await has settled: their continuations run before
\* the event loop takes its next task
ResumePending ==
    \/ \E w \in waiting : ~InitInFlight(w.promise)
    \/ \E r \in DOMAIN refreshes :
          refreshes[r].pc = "waitInit" /\ ~InitInFlight(refreshes[r].waitOn)

\* the constructor of SearchCommand has called initializeService
Constructed == inits # <<>>

\* SearchCommand.initializeService: the one call of initialize() from
\* outside the service, at construction
Initialize ==
    /\ ~Constructed
    /\ ~disposed /\ ~isInitialized /\ initPromise = 0
    /\ Len(inits) < limits.inits
    /\ SetSvc(SvcStartInit(Svc))
    /\ last' = Nothing
    /\ UNCHANGED <<refreshes, waiting, disposed, searches>>
    /\ UnchangedQueue

\* initSqlJs has resolved: the rest of storage.initialize() and
\* performInitialization to its next await
StorageInitialized(i) ==
    /\ ~ResumePending
    /\ inits[i].pc = "initSqlJs"
    /\ SetSvc(SvcSettle(Svc, i, AfterStorageInit(SqlInitialize(storage))))
    /\ last' = Nothing
    /\ UNCHANGED <<refreshes, waiting, disposed, searches>>
    /\ UnchangedQueue

\* the build of performInitialization number i resumes; cancelled: it has
\* ended with 'Indexing cancelled'
InitBuildStep(i) ==
    /\ ~ResumePending
    /\ inits[i].pc = "build"
    /\ SetSvc(SvcSettle(Svc, i, InitTask(BuildResume(storage, inits[i].b,
                                                      BuildInput(inits[i].b)))))
    /\ last' = IF inits'[i].pc = "rejected" /\ inits[i].b.cancelled
               THEN [op |-> "cancelled", init |-> i]
               ELSE Nothing
    /\ UNCHANGED <<refreshes, waiting, disposed, searches>>
    /\ UnchangedQueue

\* the user cancels the progress notification of a build
InitCancel(i) ==
    /\ ~ResumePending
    /\ inits[i].pc = "build" /\ Cancelled < limits.cancels
    /\ inits' = [inits EXCEPT ![i].b.cancelled = TRUE]
    /\ last' = Nothing
    /\ UNCHANGED <<storage, isInitialized, initPromise, fileWatcher, watchers,
                   refreshes, waiting, disposed, searches>>
    /\ UnchangedQueue

RefreshCancel(r) ==
    /\ ~ResumePending
    /\ refreshes[r].pc = "build" /\ Cancelled < limits.cancels
    /\ refreshes' = [refreshes EXCEPT ![r].b.cancelled = TRUE]
    /\ last' = Nothing
    /\ UNCHANGED <<storage, isInitialized, initPromise, inits, fileWatcher, watchers,
                   waiting, disposed, searches>>
    /\ UnchangedQueue

\* refreshIndex() number r has run to res = [svc, task]
RefreshRuns(r, res) ==
    /\ SetSvc(res.svc)
    /\ refreshes' = IF r > Len(refreshes) THEN Append(refreshes, res.task)
                    ELSE [refreshes EXCEPT ![r] = res.task]

\* SearchCommand.refreshIndex: refreshIndex() is called
RefreshIndex ==
    /\ Constructed /\ ~ResumePending
    /\ ~disposed
    /\ Len(refreshes) < limits.refreshes
    /\ isInitialized \/ initPromise # 0 \/ Len(inits) < limits.inits
    /\ RefreshRuns(Len(refreshes) + 1, SvcRefreshIndex(SvcInitialize(Svc)))
    /\ last' = Nothing
    /\ UNCHANGED <<waiting, disposed, searches>>
    /\ UnchangedQueue

\* the initialize() a refreshIndex() awaits has settled
RefreshResume(r) ==
    /\ refreshes[r].pc = "waitInit"
    /\ ~InitInFlight(refreshes[r].waitOn)
    /\ RefreshRuns(r, SvcRefreshAwait(Svc, refreshes[r].waitOn))
    /\ last' = Nothing
    /\ UNCHANGED <<waiting, disposed, searches>>
    /\ UnchangedQueue

\* the build of refreshIndex() number r has run to res = [st, b];
\* isInitialized = true after buildIndex has returned
RefreshBuilt(r, res) ==
    /\ storage' = res.st
    /\ refreshes' = [refreshes EXCEPT ![r] = RefreshTask(res)]
    /\ isInitialized' = (isInitialized \/ res.b.pc = "done")

\* the build of refreshIndex() number r resumes
RefreshBuildStep(r) ==
    /\ ~ResumePending
    /\ refreshes[r].pc = "build"
    /\ RefreshBuilt(r, BuildResume(storage, refreshes[r].b, BuildInput(refreshes[r].b)))
    /\ last' = Nothing
    /\ UNCHANGED <<initPromise, inits, fileWatcher, watchers, waiting, disposed, searches>>
    /\ UnchangedQueue

UnchangedBuilds ==
    UNCHANGED <<isInitialized, initPromise, inits, refreshes, fileWatcher, watchers>>

\* what a store holds: its items and its postings
StoreContent(st) == <<Items(st), TrigramPostings(st), TokenPostings(st)>>

\* the rest of a batch, from entry applied + 1 to its commit
FinishBatch(st, updates, applied) ==
    Caught(commitTransaction(ApplyUpdates(st, updates, applied, Len(updates), 0).st))

SearchResults(st, query) == IF Readable(st) THEN search(st, query, maxResults) ELSE <<>>

\* a search that reads the store in this turn returns results. partial: a
\* batch is between two of its entries and the results are neither those
\* of the store before the batch nor those of the store after it. early: a
\* refresh that was running when the search was called is still running.
\* after: the batch that ended in the turn before
SearchObservation(query, during, results) ==
    [op |-> "search",
     ok |-> Readable(storage),
     results |-> results,
     partial |-> /\ batch.active
                 /\ results # SearchResults(batch.pre, query)
                 /\ results # SearchResults(FinishBatch(storage, batch.updates, batch.applied),
                                            query),
     early |-> during \cap RunningRefreshes # {},
     after |-> IF last.op = "batch" THEN last.updates ELSE <<>>]

\* search(query) awaits the promise of initialize()
SearchAwaits(query, called) ==
    /\ SetSvc(called.svc)
    /\ waiting' = waiting \cup {[promise |-> called.promise, query |-> query,
                                 during |-> RunningRefreshes]}
    /\ last' = [op |-> "searchAwaits",
                startedInit |-> Len(called.svc.inits) > Len(inits),
                during |-> RunningRefreshes]

\* SearchCommand.performSearch has awaited initializeService and calls
\* search(query): it reads the store in this turn when isInitialized is set
\* and awaits initialize() otherwise
Search(query) ==
    /\ Constructed /\ inits[1].pc = "resolved" /\ ~ResumePending
    /\ ~disposed
    /\ searches < limits.searches
    /\ searches' = searches + 1
    /\ isInitialized \/ initPromise # 0 \/ Len(inits) < limits.inits
    /\ IF isInitialized
       THEN /\ last' = SearchObservation(query, RunningRefreshes, SearchResults(storage, query))
            /\ UNCHANGED <<storage, waiting>>
            /\ UnchangedBuilds
       ELSE /\ SearchAwaits(query, SvcInitialize(Svc))
            /\ UNCHANGED refreshes
    /\ UNCHANGED disposed
    /\ UnchangedQueue

\* the initialize() a search awaits has settled: the search reads the store
\* or throws
SearchResume(w) ==
    /\ w \in waiting
    /\ ~InitInFlight(w.promise)
    /\ waiting' = waiting \ {w}
    /\ last' = IF inits[w.promise].pc = "resolved"
               THEN SearchObservation(w.query, w.during, SearchResults(storage, w.query))
               ELSE Nothing
    /\ UNCHANGED <<storage, disposed, searches>>
    /\ UnchangedBuilds
    /\ UnchangedQueue

\* indexFiles: the built-in exclusions of the build
defaultExclusions ==
    <<<<"*", "*", "/", "n", "o", "d", "e", "_", "m", "o", "d", "u", "l", "e", "s", "/", "*", "*">>,
      <<"*", "*", "/", ".", "g", "i", "t", "/", "*", "*">>,
      <<"*", "*", "/", "d", "i", "s", "t", "/", "*", "*">>,
      <<"*", "*", "/", "b", "u", "i", "l", "d", "/", "*", "*">>,
      <<"*", "*", "/", "c", "o", "v", "e", "r", "a", "g", "e", "/", "*", "*">>,
      <<"*", "*", "/", ".", "n", "e", "x", "t", "/", "*", "*">>,
      <<"*", "*", "/", "o", "u", "t", "/", "*", "*">>,
      <<"*", "*", "/", "*", ".", "m", "i", "n", ".", "j", "s">>,
      <<"*", "*", "/", "*", ".", "m", "a", "p">>,
      <<"*", "*", "/", "v", "e", "n", "d", "o", "r", "/", "*", "*">>,
      <<"*", "*", "/", "b", "o", "w", "e", "r", "_", "c", "o", "m", "p", "o", "n", "e", "n", "t", "s", "/", "*", "*">>,
      <<"*", "*", "/", "t", "m", "p", "/", "*", "*">>,
      <<"*", "*", "/", "t", "e", "m", "p", "/", "*", "*">>,
      <<"*", "*", "/", ".", "c", "a", "c", "h", "e", "/", "*", "*">>,
      <<"*", "*", "/", ".", "v", "s", "c", "o", "d", "e", "/", "*", "*">>,
      <<"*", "*", "/", ".", "i", "d", "e", "a", "/", "*", "*">>>>

\* [...new Set([...excludePatterns, ...defaultExclusions])]
allExclusions(patterns) == patterns \o defaultExclusions

\* the glob matching of vscode.workspace.findFiles: ** spans directories, *
\* and ? stay inside one path segment
RECURSIVE GlobMatch(_, _)
GlobMatch(glob, path) ==
    IF glob = <<>> THEN path = <<>>
    ELSE IF Len(glob) >= 2 /\ glob[1] = "*" /\ glob[2] = "*"
    THEN LET rest == SubSeq(glob, 3, Len(glob))
         IN  \/ \E k \in 0..Len(path) : GlobMatch(rest, SubSeq(path, k + 1, Len(path)))
             \/ rest # <<>> /\ rest[1] = "/" /\ GlobMatch(Tail(rest), path)
    ELSE IF glob[1] = "*"
    THEN \E k \in 0..Len(path) :
            /\ \A i \in 1..k : path[i] # "/"
            /\ GlobMatch(Tail(glob), SubSeq(path, k + 1, Len(path)))
    ELSE IF glob[1] = "?"
    THEN path # <<>> /\ path[1] # "/" /\ GlobMatch(Tail(glob), Tail(path))
    ELSE path # <<>> /\ path[1] = glob[1] /\ GlobMatch(Tail(glob), Tail(path))

\* the exclude argument of findFiles, `{${allExclusions.join(',')}}`: a path
\* is left out when one of the globs matches it
ExcludedFromBuild(path, patterns) ==
    \E k \in DOMAIN allExclusions(patterns) : GlobMatch(allExclusions(patterns)[k], path)

\* pattern.replace(/\*/g, '.*').replace(/\?/g, '.')
RECURSIVE PatternSource(_)
PatternSource(pattern) ==
    IF pattern = <<>> THEN <<>>
    ELSE (IF pattern[1] = "*" THEN <<".", "*">>
          ELSE IF pattern[1] = "?" THEN <<".">>
          ELSE <<pattern[1]>>) \o PatternSource(Tail(pattern))

\* a regular expression built of characters, of . and of .* matches at the
\* start of text
RECURSIVE RegExpMatchesAt(_, _)
RegExpMatchesAt(source, text) ==
    IF source = <<>> THEN TRUE
    ELSE IF Len(source) >= 2 /\ source[1] = "." /\ source[2] = "*"
    THEN \E k \in 0..Len(text) :
            RegExpMatchesAt(SubSeq(source, 3, Len(source)), SubSeq(text, k + 1, Len(text)))
    ELSE /\ text # <<>>
         /\ source[1] = "." \/ source[1] = text[1]
         /\ RegExpMatchesAt(Tail(source), Tail(text))

\* new RegExp(source).test(text): the expression matches somewhere in text
RegExpTest(source, text) ==
    \E k \in 0..Len(text) : RegExpMatchesAt(source, SubSeq(text, k + 1, Len(text)))

shouldExclude(relativePath, patterns) ==
    \E k \in DOMAIN patterns : RegExpTest(PatternSource(patterns[k]), relativePath)

\* a watcher reports a created, changed or deleted file: onDidCreate and
\* onDidChange drop a path that shouldExclude matches, then scheduleBatchUpdate
FileEvent(path, operation) ==
    /\ ~ResumePending
    /\ watchers > 0
    /\ operation = "delete" \/ ~shouldExclude(path, workspace.excludePatterns)
    /\ events < limits.events
    /\ events' = events + 1
    /\ pendingUpdates' = PendingSet(pendingUpdates, path, operation)
    /\ updateTimer' = TRUE
    /\ last' = [op |-> "event", path |-> path, operation |-> operation]
    /\ UNCHANGED <<storage, waiting, batch, disposed, searches, faults, workspace, limits,
                   returned, opened>>
    /\ UnchangedBuilds

\* the call of processPendingUpdates that runs or resumes in this turn
BatchUpdates == IF batch.active THEN batch.updates ELSE pendingUpdates
BatchPre == IF batch.active THEN batch.pre ELSE storage
BatchInsideBuild == IF batch.active THEN batch.insideBuild ELSE BuildsInProgress > 0
BatchFrom == IF batch.active THEN batch.applied ELSE 0
BatchTo == Min(Len(BatchUpdates), BatchFrom + BatchSlice(BatchUpdates))

\* processPendingUpdates has returned: after its commit, or after its catch
\* block when failed. rejected: the catch block has thrown
BatchEnded(final, failed, applied) ==
    /\ storage' = Caught(final)
    /\ batch' = NoBatch
    /\ last' = [op |-> "batch", updates |-> BatchUpdates, failed |-> failed,
                applied |-> applied, insideBuild |-> BatchInsideBuild,
                rejected |-> final.thrown,
                restored |-> StoreContent(final) = StoreContent(BatchPre),
                sameIds |-> \A k \in DOMAIN BatchUpdates :
                               (/\ BatchUpdates[k].operation = "update"
                                /\ getItemByPath(BatchPre, BatchUpdates[k].path) # NullItem)
                               => getItemByPath(final, BatchUpdates[k].path).id
                                     = getItemByPath(BatchPre, BatchUpdates[k].path).id]

BatchCommitted(committed, applied) ==
    IF committed.thrown THEN BatchEnded(BatchCatch(committed), TRUE, applied)
    ELSE BatchEnded(committed, FALSE, applied)

\* the loop of processPendingUpdates has run to r = [st, applied]
BatchApplied(r) ==
    IF r.st.thrown THEN BatchEnded(BatchCatch(r.st), TRUE, r.applied)
    ELSE IF r.applied = Len(BatchUpdates) THEN BatchCommitted(commitTransaction(r.st), r.applied)
    ELSE /\ storage' = r.st
         /\ batch' = [active |-> TRUE, updates |-> BatchUpdates, applied |-> r.applied,
                      pre |-> BatchPre, insideBuild |-> BatchInsideBuild]
         /\ last' = Nothing

\* the debounce timer fires: processPendingUpdates, or its next slice.
\* faultAt > 0: the first statement of entry faultAt fails with an I/O error
ProcessPendingUpdates(faultAt) ==
    /\ ~ResumePending
    /\ batch.active \/ updateTimer
    /\ faultAt \in 0..Len(BatchUpdates)
    /\ faultAt > 0 =>
          faults > 0 /\ ~IsMemory(storage) /\ faultAt > BatchFrom /\ faultAt <= BatchTo
    /\ faults' = IF faultAt > 0 THEN faults - 1 ELSE faults
    /\ BatchApplied(ApplyUpdates(IF batch.active THEN storage ELSE beginTransaction(storage),
                                 BatchUpdates, BatchFrom, BatchTo, faultAt))
    /\ pendingUpdates' = IF batch.active THEN pendingUpdates ELSE <<>>
    /\ updateTimer' = IF batch.active THEN updateTimer ELSE FALSE
    /\ UNCHANGED <<waiting, disposed, events, searches, workspace, limits, returned,
                   opened>>
    /\ UnchangedBuilds

\* the 5 s timer of scheduleSave fires
SaveTimer ==
    /\ ~ResumePending
    /\ ~IsMemory(storage) /\ storage.saveTimer
    /\ storage' = SqlSaveToFile(storage)
    /\ storage' # storage
    /\ last' = Nothing
    /\ UNCHANGED <<waiting, disposed, searches>>
    /\ UnchangedBuilds
    /\ UnchangedQueue

\* storage.close() has given the store closed. flushed: the file holds
\* every row the database held at the call, those of an open transaction
\* included
StorageClosed(closed) ==
    /\ storage' = Caught(closed)
    /\ last' = [op |-> "dispose",
                flushed |-> IF Readable(storage) /\ ~IsMemory(storage)
                            THEN closed.file = [exists |-> TRUE, tables |-> storage.db]
                            ELSE TRUE]

\* dispose(): the watcher this.fileWatcher refers to, the debounce timer,
\* storage.close()
Dispose ==
    /\ Constructed /\ ~ResumePending
    /\ ~disposed
    /\ disposed' = TRUE
    /\ fileWatcher' = FALSE
    /\ watchers' = IF fileWatcher THEN watchers - 1 ELSE watchers
    /\ updateTimer' = FALSE
    /\ StorageClosed(close(storage))
    /\ UNCHANGED <<isInitialized, initPromise, inits, refreshes, waiting, pendingUpdates,
                   batch, events, searches, faults, workspace, limits, returned,
                   opened>>

Next ==
    \/ Initialize
    \/ \E i \in DOMAIN inits : StorageInitialized(i)
    \/ \E i \in DOMAIN inits : InitBuildStep(i)
    \/ \E i \in DOMAIN inits : InitCancel(i)
    \/ RefreshIndex
    \/ \E r \in DOMAIN refreshes : RefreshResume(r)
    \/ \E r \in DOMAIN refreshes : RefreshBuildStep(r)
    \/ \E r \in DOMAIN refreshes : RefreshCancel(r)
    \/ \E query \in Queries : Search(query)
    \/ \E w \in waiting : SearchResume(w)
    \/ \E path \in Paths, operation \in Operations : FileEvent(path, operation)
    \/ \E faultAt \in 0..limits.events : ProcessPendingUpdates(faultAt)
    \/ SaveTimer
    \/ Dispose

\* the service: two initializations, a refresh, a search, a file event, a
\* cancellation
Spec == Init /\ [][Next]_vars

\* the service with batches of two entries
InitBatch ==
    InitService(InitStorages, Workspace(<<P1>>, <<S1, S2>>),
                Limits(MaxInits, MaxRefreshes, BatchEvents, MaxSearches, MaxCancels), 0)
SpecBatch == InitBatch /\ [][Next]_vars

\* the service with batches of two entries and I/O errors of the database
InitFault ==
    InitService(InitStorages, Workspace(<<P1>>, <<S1, S2>>),
                Limits(MaxInits, MaxRefreshes, BatchEvents, MaxSearches, MaxCancels), MaxFaults)
SpecFault == InitFault /\ [][Next]_vars

\* the construction and the calls of refreshIndex and search, repeated, in
\* a workspace without symbols, file events and cancellations
NextCalls ==
    \/ Initialize
    \/ \E i \in DOMAIN inits : StorageInitialized(i)
    \/ \E i \in DOMAIN inits : InitBuildStep(i)
    \/ RefreshIndex
    \/ \E r \in DOMAIN refreshes : RefreshResume(r)
    \/ \E r \in DOMAIN refreshes : RefreshBuildStep(r)
    \/ \E query \in Queries : Search(query)
    \/ \E w \in waiting : SearchResume(w)
InitCalls ==
    InitService(InitStorages, Workspace(<<P1>>, <<>>),
                Limits(DeepInits, DeepRefreshes, 0, DeepSearches, 0), 0)
SpecCalls == InitCalls /\ [][NextCalls]_vars

(***************************************************************************)
(* The storage adapters on their own: the operations of                    *)
(* TrigramStorageAdapter called in any order on an initialized store.      *)
(***************************************************************************)
\* the largest item id the exploration lets a store hand out
MaxItems == 3

InitStore ==
    InitService({MemoryStorage, SqlInitialize(SqliteStorage(NoFile))},
                Workspace(<<>>, <<>>), Limits(0, 0, 0, 0, 0), 0)

UnchangedService ==
    UNCHANGED <<isInitialized, initPromise, inits, refreshes, waiting, fileWatcher, watchers,
                updateTimer, pendingUpdates, batch, disposed, events, searches, faults,
                workspace, limits>>

\* the id the next addItem hands out
NextItemId(st) == IF IsMemory(st) THEN st.nextId ELSE st.db.seq + 1

\* the entries of a searchTrigrams or searchTokens result for item id
EntriesFor(scores, id) == {k \in DOMAIN scores : scores[k].itemId = id}

\* the terms of the postings of item id
TermsOf(postings, id) == {p[1] : p \in {q \in postings : q[2] = id}}

\* an item exists at path
ItemAt(st, path) == \E x \in Items(st) : x.path = path

\* the call of addItem has given the store added. present: an item was at
\* the path before the call; id: the id the call returns unless it throws;
\* assigned: the call has taken an id; again: an earlier call has returned
\* that id; unchanged: the items and the postings are what they were
StoreAdded(path, added) ==
    /\ storage' = Caught(added)
    /\ last' = [op |-> "addItem", path |-> path, threw |-> added.thrown,
                present |-> ItemAt(storage, path),
                id |-> NextItemId(storage),
                assigned |-> NextItemId(added) # NextItemId(storage),
                again |-> ~added.thrown /\ NextItemId(storage) \in returned,
                unchanged |-> StoreContent(added) = StoreContent(storage)]
    /\ returned' = IF added.thrown THEN returned ELSE returned \cup {NextItemId(storage)}
    /\ opened' = IF opened.began /\ ~added.thrown
                 THEN [opened EXCEPT !.added = @ \cup {NextItemId(storage)}]
                 ELSE opened

\* addItem for a file at path, and indexItemText for the id it returns
StoreAddItem(path) ==
    /\ NextItemId(storage) <= MaxItems
    /\ StoreAdded(path, AddFileItem(storage, path))
    /\ UnchangedService

\* updateItem(id, {path})
StoreUpdateItem(id, path) ==
    /\ storage' = Caught(updateItem(storage, id, [path |-> path]))
    /\ storage' # storage
    /\ last' = [op |-> "updateItem", id |-> id, path |-> path]
    /\ UNCHANGED <<returned, opened>>
    /\ UnchangedService

\* deleteItem(id) of a live item: trigrams and tokens are the terms it was
\* indexed under
StoreDeleteItem(id) ==
    /\ id \in {x.id : x \in Items(storage)}
    /\ storage' = Caught(deleteItem(storage, id))
    /\ last' = [op |-> "deleteItem", id |-> id,
                trigrams |-> TermsOf(TrigramPostings(storage), id),
                tokens |-> TermsOf(TokenPostings(storage), id)]
    /\ opened' = [opened EXCEPT !.added = @ \ {id}]
    /\ UNCHANGED returned
    /\ UnchangedService

\* clear()
StoreClear ==
    /\ Items(storage) # {}
    /\ storage' = Caught(clear(storage))
    /\ last' = [op |-> "clear", inTransaction |-> ~IsMemory(storage) /\ storage.inTransaction]
    /\ opened' = NotOpened
    /\ UNCHANGED returned
    /\ UnchangedService

\* the longest query list of the lookups
MaxTerms == 2

\* trigrams and tokens the files at Paths are indexed under
QueryTrigrams == {<<" ", "a", "b">>, <<"a", "b", "c">>, <<"a", "b", " ">>}
QueryTokens == {<<"a", "b">>, <<"a", "b", "c">>}

\* the query lists of one to MaxTerms terms, repeated terms included
Lists(terms) == UNION {[1..n -> terms] : n \in 1..MaxTerms}

\* searchTrigrams(list) on a store that holds items
StoreSearchTrigrams(list) ==
    /\ Items(storage) # {}
    /\ last' = [op |-> "searchTrigrams", list |-> list,
                scores |-> searchTrigrams(storage, list)]
    /\ UNCHANGED <<storage, returned, opened>>
    /\ UnchangedService

\* searchTokens(list) on a store that holds items
StoreSearchTokens(list) ==
    /\ Items(storage) # {}
    /\ last' = [op |-> "searchTokens", list |-> list,
                scores |-> searchTokens(storage, list)]
    /\ UNCHANGED <<storage, returned, opened>>
    /\ UnchangedService

NextStore ==
    \/ \E path \in Paths : StoreAddItem(path)
    \/ \E id \in 1..MaxItems, path \in Paths : StoreUpdateItem(id, path)
    \/ \E id \in 1..MaxItems : StoreDeleteItem(id)
    \/ StoreClear
    \/ \E list \in Lists(QueryTrigrams) : StoreSearchTrigrams(list)
    \/ \E list \in Lists(QueryTokens) : StoreSearchTokens(list)

SpecStore == InitStore /\ [][NextStore]_vars

(***************************************************************************)
(* The storage adapters with their transactions: items are added, patched  *)
(* and cleared between beginTransaction, commitTransaction and             *)
(* rollbackTransaction, and initialize() is called again.                  *)
(***************************************************************************)
\* inTransaction of the adapter and the transaction of the connection
TransactionState(st) == IF IsMemory(st) THEN <<FALSE, FALSE>> ELSE <<st.inTransaction, st.txOpen>>

\* a transaction call has given the store after. added: the ids addItem has
\* returned since the beginTransaction; kept: getItem still returns them
StoreTransaction(op, after) ==
    /\ storage' = Caught(after)
    /\ last' = [op |-> op, threw |-> after.thrown,
                unchanged |-> StoreContent(after) = StoreContent(storage),
                added |-> opened.added,
                kept |-> \A id \in opened.added : getItem(after, id) # NullItem]
    /\ UNCHANGED returned
    /\ UnchangedService

StoreBegin ==
    /\ StoreTransaction("begin", beginTransaction(storage))
    /\ opened' = IF opened.began THEN opened ELSE [began |-> TRUE, added |-> {}]

StoreCommit ==
    /\ opened.began
    /\ StoreTransaction("commit", commitTransaction(storage))
    /\ opened' = NotOpened

StoreRollback ==
    /\ opened.began
    /\ StoreTransaction("rollback", rollbackTransaction(storage))
    /\ opened' = NotOpened

\* initialize() on the store that is initialized
StoreInitialize ==
    /\ last.op # "initialize"
    /\ storage' = Caught(initialize(storage))
    /\ last' = [op |-> "initialize",
                unchanged |-> /\ StoreContent(initialize(storage)) = StoreContent(storage)
                              /\ TransactionState(initialize(storage)) =
                                    TransactionState(storage)]
    /\ UNCHANGED <<returned, opened>>
    /\ UnchangedService

\* the fields of the items of st other than item id
OtherItems(st, id) == {x \in Items(st) : x.id # id}

\* updateItem(id, patch) has given the store updated. existed: an item had
\* the id; exact: the item has the fields of the patch and its other fields
\* as before; frame: no other item and no posting has changed
StoreUpdated(id, patch, before, updated) ==
    /\ storage' = Caught(updated)
    /\ last' = [op |-> "patchItem", id |-> id, existed |-> before # NullItem,
                threw |-> updated.thrown,
                exact |-> getItem(updated, id) =
                            [f \in DOMAIN before |->
                                IF f \in DOMAIN patch THEN patch[f] ELSE before[f]],
                frame |-> /\ OtherItems(updated, id) = OtherItems(storage, id)
                          /\ TrigramPostings(updated) = TrigramPostings(storage)
                          /\ TokenPostings(updated) = TokenPostings(storage),
                unchanged |-> StoreContent(updated) = StoreContent(storage)]
    /\ UNCHANGED <<returned, opened>>
    /\ UnchangedService

\* the patch of storage.test.ts: a new name
Patches == {[name |-> <<"n">>]}

\* the largest item id the exploration of the transactions lets a store hand out
MaxAdapterItems == 2
\* the operations the sqlite adapter has counted when the exploration stops adding
MaxBatchOperations == 20

\* the exploration adds another item
MayAdd(st) ==
    /\ NextItemId(st) <= MaxAdapterItems
    /\ IF IsMemory(st) THEN TRUE ELSE st.batchOperations < MaxBatchOperations

StorePatchItem(id, patch) ==
    StoreUpdated(id, patch, getItem(storage, id), updateItem(storage, id, patch))

\* the trigram entries of the items other than id, for every query list
OtherEntries(st, id) ==
    [list \in Lists(QueryTrigrams) |->
        {e \in Range(searchTrigrams(st, list)) : e.itemId # id}]

\* removeTrigrams(id) has given the store removed. gone: no lookup returns
\* an entry for id; others: the entries of the other items are as before
TrigramsRemoved(id, removed) ==
    /\ storage' = Caught(removed)
    /\ last' = [op |-> "removeTrigrams", id |-> id,
                gone |-> \A list \in Lists(QueryTrigrams) :
                            EntriesFor(searchTrigrams(removed, list), id) = {},
                others |-> OtherEntries(removed, id) = OtherEntries(storage, id)]
    /\ UNCHANGED <<returned, opened>>
    /\ UnchangedService

\* removeTrigrams(id) for an item that has trigram postings
StoreRemoveTrigrams(id) ==
    /\ TermsOf(TrigramPostings(storage), id) # {}
    /\ TrigramsRemoved(id, removeTrigrams(storage, id))

\* removeTokens(id) for an item that has token postings
StoreRemoveTokens(id) ==
    /\ TermsOf(TokenPostings(storage), id) # {}
    /\ storage' = Caught(removeTokens(storage, id))
    /\ last' = [op |-> "removeTokens", id |-> id]
    /\ UNCHANGED <<returned, opened>>
    /\ UnchangedService

AdapterAddItem(path) == MayAdd(storage) /\ StoreAddItem(path)

NextAdapter ==
    \/ \E path \in Paths : AdapterAddItem(path)
    \/ \E id \in 1..MaxItems : StoreDeleteItem(id)
    \/ \E id \in 1..MaxItems, patch \in Patches : StorePatchItem(id, patch)
    \/ \E id \in 1..MaxItems : StoreRemoveTrigrams(id)
    \/ StoreClear
    \/ StoreBegin
    \/ StoreCommit
    \/ StoreRollback
    \/ StoreInitialize

SpecAdapter == InitStore /\ [][NextAdapter]_vars

\* the in-memory store on its own, with the removal of either kind of
\* postings
InitShards ==
    InitService({MemoryStorage}, Workspace(<<>>, <<>>), Limits(0, 0, 0, 0, 0), 0)
NextShards ==
    \/ \E path \in Paths : AdapterAddItem(path)
    \/ \E id \in 1..MaxItems : StoreDeleteItem(id)
    \/ \E id \in 1..MaxItems : StoreRemoveTrigrams(id)
    \/ \E id \in 1..MaxItems : StoreRemoveTokens(id)
    \/ StoreClear
SpecShards == InitShards /\ [][NextShards]_vars

(***************************************************************************)
(* search() over a store of files: files are added in any order and        *)
(* searched with a limit.                                                  *)
(***************************************************************************)
\* the largest maxResults a search of the exploration asks for
MaxLimit == 2

\* files at the workspace root: a name that equals the longer query, a name
\* that starts with it, and a name that holds its characters in order with
\* another character in between
NameExact == <<"a", "b", "c", "d", "e", "f", "g">>
NamePrefix == <<"a", "b", "c", "d", "e", "f", "g", "h">>
NameFuzzy == <<"a", "b", "c", "x", "d", "e", "f", "g">>
Names == {NameExact, NamePrefix, NameFuzzy}
SearchQueries == {NameExact, <<"a", "b", "c", "d", "e", "f">>}

\* search(query, limit) has returned results. candidates: the sorted results
\* before slice(0, maxResults); byTrigrams, byTokens: what the trigram stage
\* and the token stage find, each on its own
Searched(query, limit, results, candidates) ==
    last' = [op |-> "search", query |-> query, limit |-> limit,
             results |-> results, candidates |-> candidates,
             byTrigrams |-> TrigramStage(storage, trim(query),
                                         generateTrigrams(trim(query), caseSensitive)),
             byTokens |-> TokenStage(storage, trim(query),
                                     extractCamelCaseTokens(trim(query)), <<>>)]

StoreSearch(query, limit) ==
    /\ Items(storage) # {}
    /\ Searched(query, limit, search(storage, query, limit),
                search(storage, query, Cardinality(Items(storage))))
    /\ UNCHANGED <<storage, returned, opened>>
    /\ UnchangedService

NextSearch ==
    \/ \E path \in Names : StoreAddItem(path)
    \/ \E query \in SearchQueries, limit \in 1..MaxLimit : StoreSearch(query, limit)

SpecSearch == InitStore /\ [][NextSearch]_vars

(***************************************************************************)
(* TrigramUtils on its own: calculateMatchScore and matchesAbbreviation    *)
(* called with queries and names of bounded sets.                          *)
(***************************************************************************)
\* the longest query that is built from QueryChars
MaxQueryLen == 3

QueryChars == {"g", "n", "u", "U", "x"}
BuiltQueries == UNION {[1..n -> QueryChars] : n \in 1..MaxQueryLen}
\* the queries of trigramUtils.test.ts, and a query of five characters
TestQueries ==
    {<<"C", "o", "n", "f", "i", "g">>, <<"c", "o", "n", "f">>, <<"f", "i", "g">>,
     <<"c", "n", "f", "g">>, <<"g", "e", "t", "U">>, <<"s", "c", "v">>,
     <<"a", "b", "c", "d", "e">>, <<"g", "U", "N">>, <<"x", "y", "z">>}
UtilQueries == BuiltQueries \cup TestQueries
UtilNames ==
    {<<"g", "e", "t", "U", "s", "e", "r", "N", "a", "m", "e">>,
     <<"c", "o", "n", "f", "i", "g">>,
     <<"g", "u", "n">>,
     <<"s", "n", "a", "k", "e", "_", "c", "a", "s", "e", "_", "v", "a", "r">>,
     <<"a", "b", "x", "c", "d", "e">>,
     <<"_">>}

InitUtils ==
    InitService({MemoryStorage}, Workspace(<<>>, <<>>), Limits(0, 0, 0, 0, 0), 0)

\* the rung of calculateMatchScore that returns for (query, text)
Rung(query, text, sensitive) ==
    LET processedQuery == IF sensitive THEN query ELSE toLowerCase(query)
        processedText == IF sensitive THEN text ELSE toLowerCase(text)
    IN  IF processedText = processedQuery THEN "exact"
        ELSE IF startsWith(processedText, processedQuery) THEN "prefix"
        ELSE IF includes(processedText, processedQuery) THEN "contains"
        ELSE IF matchesAbbreviation(query, text) THEN "abbreviation"
        ELSE "fuzzy"

\* TrigramUtils.calculateMatchScore(query, text, sensitive) is called; the
\* functions of TrigramUtils are static and keep no state, so one call is
\* explored for each input
CallCalculateMatchScore(query, text, sensitive) ==
    /\ last = Nothing
    /\ last' = [op |-> "score", query |-> query, text |-> text, sensitive |-> sensitive,
                rung |-> Rung(query, text, sensitive),
                score |-> calculateMatchScore(query, text, sensitive)]
    /\ UNCHANGED <<storage, returned, opened>>
    /\ UnchangedService

\* TrigramUtils.matchesAbbreviation(query, text) is called
CallMatchesAbbreviation(query, text) ==
    /\ last = Nothing
    /\ last' = [op |-> "abbreviation", query |-> query, text |-> text,
                matches |-> matchesAbbreviation(query, text)]
    /\ UNCHANGED <<storage, returned, opened>>
    /\ UnchangedService

\* the longest built text handed to the token extraction
MaxTextLen == 4
TextChars == {"a", "B", "C", "1", "_", "-", " "}
BuiltTexts == UNION {[1..n -> TextChars] : n \in 0..MaxTextLen}
\* the texts of trigramUtils.test.ts
TestTexts ==
    {<<"g", "e", "t", "U", "s", "e", "r", "N", "a", "m", "e">>,
     <<"s", "n", "a", "k", "e", "_", "c", "a", "s", "e", "_", "v", "a", "r">>,
     <<"s", "o", "m", "e", "-", "m", "i", "x", "e", "d", "_", "c", "a", "s", "e", "N", "a", "m", "e">>}
UtilTexts == BuiltTexts \cup TestTexts

\* TrigramUtils.extractCamelCaseTokensWithPositions(text) is called
CallExtractTokens(text) ==
    /\ last = Nothing
    /\ last' = [op |-> "tokens", text |-> text,
                tokens |-> extractCamelCaseTokensWithPositions(text)]
    /\ UNCHANGED <<storage, returned, opened>>
    /\ UnchangedService

NextUtils ==
    \/ \E query \in UtilQueries, text \in UtilNames, sensitive \in BOOLEAN :
          CallCalculateMatchScore(query, text, sensitive)
    \/ \E query \in UtilQueries, text \in UtilNames : CallMatchesAbbreviation(query, text)
    \/ \E text \in UtilTexts : CallExtractTokens(text)

SpecUtils == InitUtils /\ [][NextUtils]_vars

(***************************************************************************)
(* The watchers and the exclusions: a workspace with files that the build  *)
(* leaves out, an initial build, then file events and their batches.       *)
(***************************************************************************)
\* the file events of the exploration
MaxWatchEvents == 2

TmpA == <<"t", "m", "p", "/", "a">>
SubTmpB == <<"a", "/", "t", "m", "p", "/", "b">>
\* the files on disk, and the paths the watchers report
DiskFiles == <<P1, TmpA>>
WatchPaths == {P1, TmpA, SubTmpB}
\* the settings of searchEverything.excludePatterns
ConfiguredPatterns == {<<>>, <<<<"*", "*", "/", "t", "m", "p", "/", "*", "*">>>>}

\* what findFiles returns for the files on disk
FindFiles(files, patterns) == SelectSeq(files, LAMBDA f : ~ExcludedFromBuild(f, patterns))

InitWatch ==
    \E patterns \in ConfiguredPatterns :
        InitService(InitStorages,
                    [files |-> FindFiles(DiskFiles, patterns), symbols |-> <<>>,
                     excludePatterns |-> patterns],
                    Limits(1, 0, MaxWatchEvents, 0, 0), 0)

NextWatch ==
    \/ Initialize
    \/ \E i \in DOMAIN inits : StorageInitialized(i)
    \/ \E i \in DOMAIN inits : InitBuildStep(i)
    \/ \E path \in WatchPaths, operation \in Operations : FileEvent(path, operation)
    \/ ProcessPendingUpdates(0)

SpecWatch == InitWatch /\ [][NextWatch]_vars

(***************************************************************************)
(* The batching of the persistent store: addItem, addTrigrams and          *)
(* addTokens with their implicit begin and their commit every BATCH_SIZE   *)
(* operations, among explicit transactions, clear, initialize and          *)
(* setAutoCommit.  last.uncommitted counts the writes the open transaction *)
(* of the database holds.                                                  *)
(***************************************************************************)
\* the writes of the exploration start at most this far below BATCH_SIZE
MaxMargin == 3
\* away from BATCH_SIZE the batch counter is let grow this far
MaxCounted == 3

T1 == [trigram |-> <<"a", "b", "c">>, itemId |-> 1, position |-> 0]
T2 == [trigram |-> <<"b", "c", "d">>, itemId |-> 1, position |-> 1]
K1 == [token |-> <<"a", "b">>, itemId |-> 1, position |-> 0]
WriteLists == {<<T1>>, <<T1, T2>>}

\* a store whose open implicit transaction holds counted writes: addTrigrams
\* of <<T1>> has been called counted times (INSERT OR IGNORE adds no row for
\* a repeated triple, and every call is counted)
Counted(counted) ==
    [SqlAddTrigrams(SqlInitialize(SqliteStorage(NoFile)), <<T1>>)
        EXCEPT !.batchOperations = counted]

InitAuto ==
    /\ \E margin \in 1..MaxMargin :
          /\ storage \in {SqlInitialize(SqliteStorage(NoFile)), Counted(BATCH_SIZE - margin)}
          /\ last = [op |-> "none",
                     uncommitted |-> IF storage.txOpen THEN storage.batchOperations ELSE 0]
    /\ workspace = Workspace(<<>>, <<>>)
    /\ limits = Limits(0, 0, 0, 0, 0)
    /\ isInitialized = FALSE
    /\ initPromise = 0
    /\ inits = <<>>
    /\ refreshes = <<>>
    /\ waiting = {}
    /\ fileWatcher = FALSE
    /\ watchers = 0
    /\ updateTimer = FALSE
    /\ pendingUpdates = <<>>
    /\ batch = NoBatch
    /\ disposed = FALSE
    /\ events = 0
    /\ searches = 0
    /\ faults = 0
    /\ returned = {}
    /\ opened = NotOpened

\* a count may grow: it is small or near BATCH_SIZE
MayGrow(n) ==
    \/ n < MaxCounted
    \/ n >= BATCH_SIZE - MaxMargin /\ n < BATCH_SIZE + MaxMargin
MayCount(st) == MayGrow(st.batchOperations) /\ MayGrow(last.uncommitted)

\* the writes the open transaction of the database holds after a call that
\* adds n of them unless it throws
Uncommitted(after, n) ==
    IF after.txOpen
    THEN (IF storage.txOpen THEN last.uncommitted ELSE 0) + (IF after.thrown THEN 0 ELSE n)
    ELSE 0

\* a call of addItem, addTrigrams or addTokens with n operations has given
\* the store after. inTransaction: the database had an open transaction
\* when the rows were inserted; begins and commits: the call has executed
\* a BEGIN, a COMMIT
Written(op, n, after) ==
    /\ storage' = Caught(after)
    /\ last' = [op |-> op, n |-> n, threw |-> after.thrown,
                autoCommit |-> storage.autoCommit,
                inTransaction |-> SqlImplicitBegin(storage).txOpen,
                begins |-> ~storage.txOpen /\ SqlImplicitBegin(storage).txOpen,
                commits |-> SqlImplicitBegin(storage).txOpen /\ ~after.txOpen,
                uncommitted |-> Uncommitted(after, n)]
    /\ UNCHANGED <<returned, opened>>
    /\ UnchangedService

AutoAddItem(path) ==
    /\ NextItemId(storage) <= MaxAdapterItems
    /\ MayCount(storage)
    /\ Written("addItem", 1, SqlAddItem(storage, Item(0, path, basename(path), "File", 0)))

AutoAddTrigrams(trigrams) ==
    /\ MayCount(storage)
    /\ Written("addTrigrams", Len(trigrams), SqlAddTrigrams(storage, trigrams))

AutoAddTokens(tokens) ==
    /\ MayCount(storage)
    /\ Written("addTokens", Len(tokens), SqlAddTokens(storage, tokens))

\* beginTransaction, commitTransaction, rollbackTransaction, clear or
\* initialize has given the store after
Transacted(op, after) ==
    /\ storage' = Caught(after)
    /\ storage' # storage
    /\ last' = [op |-> op, threw |-> after.thrown, uncommitted |-> Uncommitted(after, 0)]
    /\ UNCHANGED <<returned, opened>>
    /\ UnchangedService

AutoBegin == Transacted("begin", SqlBeginTransaction(storage))
AutoCommit == Transacted("commit", SqlCommitTransaction(storage))
AutoRollback == Transacted("rollback", SqlRollbackTransaction(storage))
AutoClear == Transacted("clear", SqlClear(storage))
AutoInitialize == Transacted("initialize", SqlInitialize(storage))

\* commitTransaction whose COMMIT statement fails on an open transaction: the
\* catch block resets the flag and the counter and rethrows. SQLite has kept
\* the transaction open or has rolled it back
SqlCommitFails(st, kept) ==
    LET d == IF kept THEN st ELSE ExecRollback(st)
    IN  Throw([d EXCEPT !.inTransaction = FALSE, !.batchOperations = 0])
AutoCommitFails(kept) ==
    /\ storage.open /\ storage.inTransaction /\ storage.txOpen
    /\ Transacted("commitFails", SqlCommitFails(storage, kept))

\* setAutoCommit(enabled): buildIndex disables auto-commit before its
\* beginTransaction and enables it after its commitTransaction or its
\* rollbackTransaction has returned
AutoSetAutoCommit(enabled) ==
    /\ enabled => ~storage.inTransaction
    /\ Transacted("setAutoCommit", SqlSetAutoCommit(storage, enabled))

NextAuto ==
    \/ \E path \in Paths : AutoAddItem(path)
    \/ \E trigrams \in WriteLists : AutoAddTrigrams(trigrams)
    \/ AutoAddTokens(<<K1>>)
    \/ AutoBegin
    \/ AutoCommit
    \/ AutoRollback
    \/ AutoClear
    \/ AutoInitialize
    \/ \E kept \in BOOLEAN : AutoCommitFails(kept)
    \/ \E enabled \in BOOLEAN : AutoSetAutoCommit(enabled)

SpecAuto == InitAuto /\ [][NextAuto]_vars

TypeOK ==
    /\ isInitialized \in BOOLEAN
    /\ initPromise \in 0..limits.inits
    /\ Len(inits) <= limits.inits
    /\ Len(refreshes) <= limits.refreshes
    /\ watchers \in 0..limits.inits
    /\ faults \in 0..MaxFaults


C2_RefreshIsBarrier ==
    /\ (last.op = "searchAwaits" /\ last.during # {}) => ~last.startedInit
    /\ last.op = "search" => ~last.early

\* C3: performInitialization is not started while another one is in flight
C3_OneInitializationInFlight == Cardinality({i \in DOMAIN inits : InitInFlight(i)}) <= 1

\* C4: at most one transaction of the Builder is outstanding: no two builds
\* are between their begin and their commit, and no batch runs its begin
\* and commit inside a build
C4_OneTransaction ==
    /\ BuildsInProgress <= 1
    /\ last.op = "batch" => ~last.insideBuild

\* C5: after deleteItem(i), no trigram or token posting of i is left in the
\* store, and searchTrigrams and searchTokens return no entry for i for the
\* terms i was indexed under
C5_DeleteCascades ==
    last.op = "deleteItem" =>
        /\ last.id \notin PostingIds(storage)
        /\ \A t \in last.trigrams : EntriesFor(searchTrigrams(storage, <<t>>), last.id) = {}
        /\ \A t \in last.tokens : EntriesFor(searchTokens(storage, <<t>>), last.id) = {}

\* C6: no two live items have the same path
C6_PathsUnique == \A x, y \in Items(storage) : x.path = y.path => x.id = y.id

\* C7: a processPendingUpdates batch in which an operation fails leaves the
\* items and the postings of the store as they were before the batch, and
\* its promise is rejected
C7_FailedBatchRollsBackAndThrows ==
    (last.op = "batch" /\ last.failed) => (last.restored /\ last.rejected)

\* C10: processPendingUpdates applies every entry it has taken from the
\* pending map
C10_TakenEntriesAreApplied == last.op = "batch" => last.applied = Len(last.updates)

\* the initial build is the only build that has started
OnlyInitialBuild == Len(inits) = 1 /\ \A r \in DOMAIN refreshes : refreshes[r].b = NoBuild

\* C8: when the initial build has ended cancelled, the store holds no item
\* and no posting, and auto-commit is enabled
C8_CancelledBuildLeavesNothing ==
    (last.op = "cancelled" /\ OnlyInitialBuild) =>
        /\ Items(storage) = {}
        /\ PostingIds(storage) = {}
        /\ IsMemory(storage) \/ storage.autoCommit

\* the entries of a pending map for path
EntriesOf(updates, path) == {k \in DOMAIN updates : updates[k].path = path}

\* C9: the pending map holds one entry for each path, with the operation of
\* its last event; a batch processes each path once, and after it an item
\* exists at the path if and only if that operation was not delete
C9_LastOperationWins ==
    /\ last.op = "event" =>
          /\ Cardinality(EntriesOf(pendingUpdates, last.path)) = 1
          /\ \A k \in EntriesOf(pendingUpdates, last.path) :
                pendingUpdates[k].operation = last.operation
    /\ last.op = "batch" =>
          \A k \in DOMAIN last.updates :
             /\ EntriesOf(last.updates, last.updates[k].path) = {k}
             /\ ItemAt(storage, last.updates[k].path) <=> last.updates[k].operation # "delete"

\* the ids of the live items
LiveIds(st) == {x.id : x \in Items(st)}

\* C11: every item with a parentId references a live item; after a delete
\* of a File item no symbol item whose parentId is that file is left
C11_ParentsAreLive ==
    \A x \in Items(storage) : x.parentId # 0 => x.parentId \in LiveIds(storage)

\* C12: addItem with a path that is present in the store throws, takes no
\* id, and leaves the items and the postings as they were
C12_DuplicatePathRejected ==
    (last.op = "addItem" /\ last.present) =>
        (last.threw /\ ~last.assigned /\ last.unchanged)

\* C13: an id addItem returns has not been returned by an earlier addItem on
\* the store, whatever deleteItem and clear() calls lie between the two
C13_IdsNeverReused == last.op = "addItem" => ~last.again

\* a lookup has run
IsLookup == last.op \in {"searchTrigrams", "searchTokens"}

\* the postings the last lookup has read
LookupPostings ==
    IF last.op = "searchTrigrams" THEN TrigramPostings(storage) ELSE TokenPostings(storage)

\* the distinct terms of list that have a posting under item id
Matched(postings, list, id) == Range(list) \cap TermsOf(postings, id)

\* C14: every entry of a searchTrigrams or searchTokens result carries the
\* number of distinct terms of the query list that have a posting under its
\* item, so that a repeated term counts once
C14_CountsDistinctTerms ==
    IsLookup =>
        \A k \in DOMAIN last.scores :
            last.scores[k].count =
                Cardinality(Matched(LookupPostings, last.list, last.scores[k].itemId))

\* the terms of list are pairwise different
NoRepeat(list) == Cardinality(Range(list)) = Len(list)

C16_SqliteReturnsFullMatches ==
    (last.op = "searchTrigrams" /\ ~IsMemory(storage)) =>
        Range(last.scores) =
            {[itemId |-> id, count |-> Cardinality(Range(last.list))] :
                id \in {i \in PostingIds(storage) :
                           Range(last.list) \subseteq TermsOf(LookupPostings, i)}}

\* the characters of query occur in name in order, and not side by side
FuzzyOnly(query, name) ==
    /\ FuzzyWalk(toLowerCase(query), toLowerCase(name), 0, 0, 0, -1).queryIdx = Len(query)
    /\ ~includes(toLowerCase(name), toLowerCase(query))

\* the ids of the items of a result list
ResultIds(results) == {results[k].item.id : k \in DOMAIN results}

\* C17: search(q) returns an indexed item whose name holds the characters
\* of q in order but not contiguously, when fewer than limit other items
\* are indexed
C17_FuzzyMatchFound ==
    last.op = "search" =>
        \A x \in Items(storage) :
            (FuzzyOnly(last.query, x.name) /\ Cardinality(Items(storage)) <= last.limit)
                => x.id \in ResultIds(last.results)

\* name equals query or starts with it
PrefixMatch(query, name) == startsWith(toLowerCase(name), toLowerCase(query))

\* name matches query through the fuzzy character walk of calculateMatchScore
\* and through no rung above it
FuzzyRanked(query, name) == FuzzyOnly(query, name) /\ ~matchesAbbreviation(query, name)

\* C18: in the ranking of search(q), every item whose name equals q or
\* starts with q stands before every item that matches q through the fuzzy
\* character walk only
C18_PrefixAboveFuzzy ==
    last.op = "search" =>
        \A i, j \in DOMAIN last.candidates :
            (PrefixMatch(last.query, last.candidates[i].item.name)
                /\ FuzzyRanked(last.query, last.candidates[j].item.name)) => i < j

\* C19: search(q, limit) returns at most limit results, in descending order
\* of score and, among equal scores, of ascending name length, and no
\* candidate that was cut off scores higher than a returned result
C19_TopResultsInOrder ==
    last.op = "search" =>
        /\ Len(last.results) <= last.limit
        /\ \A i, j \in DOMAIN last.results :
              i < j =>
                \/ last.results[i].score > last.results[j].score
                \/ /\ last.results[i].score = last.results[j].score
                   /\ Len(last.results[i].item.name) <= Len(last.results[j].item.name)
        /\ \A i \in DOMAIN last.results, c \in DOMAIN last.candidates :
              c > Len(last.results) => last.results[i].score >= last.candidates[c].score

\* C20: an item that the trigram stage and the token stage both find has in
\* the merged result the higher of its two scores, the score of the token
\* stage being the boosted one
C20_MergeKeepsHigherScore ==
    last.op = "search" =>
        \A r \in Range(last.candidates), a \in Range(last.byTrigrams),
           b \in Range(last.byTokens) :
            (a.item.id = r.item.id /\ b.item.id = r.item.id)
                => r.score = Max(a.score, b.score)

\* C21: calculateMatchScore gives 1000 for an exact match, 900 for a prefix,
\* 800 for a substring, 700 for an abbreviation, and for every name it
\* reaches through the fuzzy walk a score below 700
C21_ScoreLadder ==
    last.op = "score" =>
        /\ last.rung = "exact" => last.score = 1000
        /\ last.rung = "prefix" => last.score = 900
        /\ last.rung = "contains" => last.score = 800
        /\ last.rung = "abbreviation" => last.score = 700
        /\ last.rung = "fuzzy" => last.score < 700

\* query and text differ, and by the case of letters only
DiffersByCase(query, text) == query # text /\ toLowerCase(query) = toLowerCase(text)

\* C22: a query that differs from the name by letter case only scores 0
\* with caseSensitive = true and 1000 with caseSensitive = false
C22_CaseSensitiveFoldsNothing ==
    (last.op = "score" /\ DiffersByCase(last.query, last.text)) =>
        last.score = IF last.sensitive THEN 0 ELSE 1000

\* the characters of queryLower can be given to tokens in ascending order,
\* no token taking two of them, each token holding its character
LooseWalk(queryLower, tokensLower) ==
    \E f \in [DOMAIN queryLower -> DOMAIN tokensLower] :
        /\ \A i, j \in DOMAIN queryLower : i < j => f[i] < f[j]
        /\ \A i \in DOMAIN queryLower : queryLower[i] \in Range(tokensLower[f[i]])

\* the three ways in which a query abbreviates a name
Abbreviates(queryLower, tokensLower) ==
    \/ startsWith(Concat(tokensLower), queryLower)
    \/ startsWith([k \in DOMAIN tokensLower |-> tokensLower[k][1]], queryLower)
    \/ LooseWalk(queryLower, tokensLower)

GetUserName == <<"g", "e", "t", "U", "s", "e", "r", "N", "a", "m", "e">>

\* C23: matchesAbbreviation(q, n) is true exactly when, without regard to
\* case, q is a prefix of the concatenated tokens of n, or of their first
\* letters, or the loose walk consumes all of q with each token used at
\* most once; gUN, gun and gn match getUserName, gnu and xyz do not
C23_AbbreviationCharacterised ==
    last.op = "abbreviation" =>
        /\ last.matches =
              Abbreviates(toLowerCase(last.query),
                          LET tokens == extractCamelCaseTokens(last.text)
                          IN  [k \in DOMAIN tokens |-> toLowerCase(tokens[k])])
        /\ last.text = GetUserName =>
              /\ last.query \in {<<"g", "U", "N">>, <<"g", "u", "n">>, <<"g", "n">>}
                    => last.matches
              /\ last.query \in {<<"g", "n", "u">>, <<"x", "y", "z">>} => ~last.matches

\* gn matches getUserName, through the walk only
C23_WalkMatches ==
    /\ last.op = "abbreviation" /\ last.matches
    /\ last.query = <<"g", "n">> /\ last.text = GetUserName

\* C24: after clear() the store has no item and no posting and no
\* transaction is open; what was written in a transaction that was open at
\* the call is not in the committed tables
C24_ClearLeavesNothing ==
    last.op = "clear" =>
        /\ Items(storage) = {}
        /\ PostingIds(storage) = {}
        /\ TransactionState(storage) = <<FALSE, FALSE>>
        /\ IF IsMemory(storage) THEN TRUE
           ELSE /\ Committed(storage).items = {}
                /\ Committed(storage).trigrams = {}
                /\ Committed(storage).tokens = {}

\* clear() has run on the sqlite store while a transaction was open
C24_ClearInTransaction == last.op = "clear" /\ last.inTransaction

\* C25: initialize() on a store that is initialized leaves its items, its
\* postings and its transaction state as they were
C25_InitializeIdempotent == last.op = "initialize" => last.unchanged

\* C26: after dispose() no file watcher is left, no debounce timer and no
\* save timer is pending and no batch is under way, and the close() of the
\* sqlite store has committed the open transaction and written the
\* database to its file
C26_DisposeReleasesEverything ==
    /\ disposed =>
          /\ watchers = 0
          /\ ~updateTimer /\ ~batch.active
          /\ IF IsMemory(storage) THEN TRUE ELSE ~storage.saveTimer
    /\ last.op = "dispose" => last.flushed

\* C27: updateItem(id, patch) gives the item the fields of the patch and
\* changes nothing else; when no item has the id it throws and changes
\* nothing
C27_UpdatePatchesOrFails ==
    last.op = "patchItem" =>
        IF last.existed THEN ~last.threw /\ last.exact /\ last.frame
        ELSE last.threw /\ last.unchanged

\* the trigrams indexItemText hands to addTrigrams for a file at path
AddedTrigrams(path) ==
    {m.trigram : m \in Range(generateTrigramsWithPositions(
                     preprocessForIndexing(FileText(basename(path), path)), caseSensitive))}

\* C28: after the trigrams of an item are added, searchTrigrams of each of
\* them alone returns the item with a count of at least 1; after
\* removeTrigrams of an item no searchTrigrams returns it, and the entries of
\* the other items are what they were
C28_TrigramsAddedAndRemoved ==
    /\ (last.op = "addItem" /\ ~last.threw) =>
           \A tg \in AddedTrigrams(last.path) :
               LET scores == searchTrigrams(storage, <<tg>>)
               IN  /\ EntriesFor(scores, last.id) # {}
                   /\ \A k \in EntriesFor(scores, last.id) : scores[k].count >= 1
    /\ last.op = "removeTrigrams" => last.gone /\ last.others

\* removeTrigrams has run for an item while another item has trigrams
C28_RemovedBesideOthers ==
    /\ last.op = "removeTrigrams"
    /\ \E p \in TrigramPostings(storage) : p[2] # last.id

C30_MemoryTransactionsAreNoOps ==
    (IsMemory(storage) /\ last.op \in {"begin", "commit", "rollback"}) =>
        ~last.threw /\ last.unchanged /\ last.kept

\* the in-memory store has rolled back after an item was added since the begin
C30_RolledBackAfterAdd ==
    /\ IsMemory(storage)
    /\ last.op = "rollback"
    /\ last.added # {}

\* the distinct terms of a set of postings
Terms(postings) == {p[1] : p \in postings}

\* C31: getStats reports the number of live items, the number of distinct
\* trigram terms and the number of distinct token terms of the index
C31_StatsCountDistinctTerms ==
    LET stats == getStats(storage)
    IN  /\ stats.totalItems = Cardinality(Items(storage))
        /\ stats.totalTrigrams = Cardinality(Terms(TrigramPostings(storage)))
        /\ stats.totalTokens = Cardinality(Terms(TokenPostings(storage)))

\* the separator characters of a text
Separators(text) == {i \in DOMAIN text : IsSep(text[i])}

\* C32: the tokens of a text are non-empty substrings of it that stand at
\* their reported positions, follow one another without overlap, and cover
\* every character of the text that is not a separator
C32_TokensCoverText ==
    last.op = "tokens" =>
        LET t == last.text
            tokens == last.tokens
        IN  /\ \A k \in DOMAIN tokens :
                   /\ tokens[k].token # <<>>
                   /\ tokens[k].position + Len(tokens[k].token) <= Len(t)
                   /\ SubSeq(t, tokens[k].position + 1,
                             tokens[k].position + Len(tokens[k].token)) = tokens[k].token
            /\ \A k \in 1..(Len(tokens) - 1) :
                   tokens[k].position + Len(tokens[k].token) <= tokens[k + 1].position
            /\ Len(Concat([k \in DOMAIN tokens |-> tokens[k].token]))
                   = Len(t) - Cardinality(Separators(t))

\* a text with a separator and a CamelCase boundary has been split into
\* three tokens or more
C32_SeparatorsAndCamelCase ==
    /\ last.op = "tokens"
    /\ Separators(last.text) # {}
    /\ Len(last.tokens) >= 3
    /\ \E k \in 1..(Len(last.tokens) - 1) :
           last.tokens[k].position + Len(last.tokens[k].token) = last.tokens[k + 1].position

\* the trigrams and the tokens that indexItemText derives from the name and
\* the path of a File item
DerivedTrigrams(x) ==
    {m.trigram : m \in Range(generateTrigramsWithPositions(
                     preprocessForIndexing(FileText(x.name, x.path)), caseSensitive))}
DerivedTokens(x) ==
    {IF caseSensitive THEN m.token ELSE toLowerCase(m.token) :
        m \in Range(extractCamelCaseTokensWithPositions(FileText(x.name, x.path)))}

\* C33: when a batch of file events has completed, the trigram and token
\* postings of every live File item are exactly those derived from
\* "<name> <path>", and an update of an indexed path has kept the item's id
C33_FilePostingsExact ==
    (last.op = "batch" /\ ~last.failed) =>
        /\ \A x \in Items(storage) :
               x.type = "File" =>
                   /\ TermsOf(TrigramPostings(storage), x.id) = DerivedTrigrams(x)
                   /\ TermsOf(TokenPostings(storage), x.id) = DerivedTokens(x)
        /\ last.sameIds

\* C34: with auto-commit on, a write that returns has run inside a
\* transaction of the database, and it leaves fewer than BATCH_SIZE
\* uncommitted writes or no open transaction
C34_AutoCommitEveryBatch ==
    (/\ last.op \in {"addItem", "addTrigrams", "addTokens"}
     /\ ~last.threw /\ last.autoCommit) =>
        /\ last.inTransaction
        /\ ~storage.txOpen \/ last.uncommitted < BATCH_SIZE

\* C35: while a build runs on the persistent store, auto-commit is off and
\* the transaction the build has begun is still open: nothing has committed
\* it before the build's own commit
C35_BuildIsOneTransaction ==
    (~IsMemory(storage) /\ BuildsInProgress > 0) =>
        ~storage.autoCommit /\ storage.txOpen

\* C36: no item of the index has a path that the exclusions of the build
\* (the configured patterns and the built-in ones) match
C36_ExcludedPathsStayOut ==
    \A x \in Items(storage) : ~ExcludedFromBuild(x.path, workspace.excludePatterns)

\* the shards of one index of the in-memory store are consistent: every
\* allocated shard holds a term, every term has an item, active counts the
\* allocated shards and total the stored terms
ShardsConsistent(shards, active, total) ==
    /\ \A i \in DOMAIN shards :
           /\ DOMAIN shards[i] # {}
           /\ \A t \in DOMAIN shards[i] : shards[i][t] # <<>>
    /\ active = Cardinality(DOMAIN shards)
    /\ total = TermCount(shards)

\* C37: in the in-memory store a shard is allocated exactly when it holds a
\* term, every stored term has a non-empty item set, and the shard and term
\* counters equal the numbers of allocated shards and of stored terms
C37_ShardsAllocatedWhenUsed ==
    IsMemory(storage) =>
        /\ ShardsConsistent(storage.trigramShards, storage.activeTrigramShards,
                            storage.totalTrigrams)
        /\ ShardsConsistent(storage.tokenShards, storage.activeTokenShards,
                            storage.totalTokens)

\* a removal has taken postings out of the in-memory store and shards are
\* left
C37_RemovedAndShardsLeft ==
    /\ IsMemory(storage)
    /\ last.op \in {"removeTrigrams", "removeTokens", "deleteItem"}
    /\ storage.activeTrigramShards > 0

\* C38: once a performInitialization has failed, isInitialized is false and
\* initPromise is still the rejected promise, so every later initialize(),
\* search() and refreshIndex() fails on it and no initialization is started
\* again
C38_FailedInitializationIsFinal ==
    \A i \in DOMAIN inits :
        inits[i].pc = "rejected" => /\ ~isInitialized
                                    /\ initPromise = i
                                    /\ Len(inits) = i

\* C39: in the in-memory store itemsById and itemsByPath describe the same
\* items: getItemByPath(x.path) returns x for every stored item x, and every
\* item returned by getItemByPath is the one getItem returns for its id
C39_ItemMapsAgree ==
    IsMemory(storage) =>
        /\ \A id \in DOMAIN storage.itemsById :
               MemGetItemByPath(storage, storage.itemsById[id].path) = storage.itemsById[id]
        /\ \A path \in DOMAIN storage.itemsByPath :
               MemGetItem(storage, storage.itemsByPath[path].id) = storage.itemsByPath[path]

\* C40: in the persistent store the inTransaction flag is true exactly when
\* the database has an open transaction, whatever begin, commit, rollback,
\* clear and writes have run and whichever of their statements have failed
C40_FlagTracksTransaction ==
    IF IsMemory(storage) THEN TRUE
    ELSE storage.open => (storage.inTransaction <=> storage.txOpen)

=============================================================================
